---- MODULE Spec2Model ----
(***************************************************************************)
(* Toroidal-grid snake: the simulation kernel (createInitialState,         *)
(* applyDirection, stepGame, togglePause) and the spawn planner            *)
(* (spawnFood, spawnObstacle, spawnObstacles) of src/game/snake.ts.        *)
(*                                                                         *)
(* A GameState is a record; a Point is a record [x, y]; Point | null is a  *)
(* sequence of length at most one.  The injected rng is a finite sequence  *)
(* of values k, each standing for the number k / RngDen.                   *)
(***************************************************************************)
EXTENDS Integers, Sequences, FiniteSets, TLC

VARIABLES
    state,     \* the current GameState snapshot
    size,      \* the grid size every call is made with
    call,      \* the last call: its name, argument, the return it took, rng values drawn
    horizon,   \* exploration stops growing the snake at this many fruits
    taken,     \* the points handed to the spawn planner when it is called directly
    picked,    \* the points the spawn planner returned for them
    given,     \* the rng values that call of the spawn planner drew
    answer     \* what the last call of a strategy helper returned

vars == <<state, size, call, horizon, taken, picked, given, answer>>

\* ------------------------------------------------------------------------
\* Bounds of the model
\* ------------------------------------------------------------------------

\* largest grid size handed to the spawn planner when it is checked alone
MaxSize == 5

\* stepGame is not taken once this many fruits were eaten since the initial state
MaxFruits == 1

\* largest obstacle budget handed to createInitialState / spawnObstacles
MaxObstacleCount == 3

\* an rng value is k / RngDen with k in 0..RngDen
RngDen == 3

\* largest number of occupied cells drawn for a spawn-planner call
MaxOccupied == 2

\* largest grid size handed to spawnFood when it is checked alone
MaxFoodSize == 3

\* largest number of free cells of a crowded grid handed to spawnFood
MaxFree == 3

\* largest grid size handed to createInitialState when it is checked alone
MaxCreateSize == 8

\* ------------------------------------------------------------------------
\* Program constants
\* ------------------------------------------------------------------------

\* smallest grid on which createInitialState builds an in-bounds snake
MinSize == 4

\* an obstacle is spawned when fruitsEaten reaches a multiple of this
ObstacleEvery == 5

Directions == {"up", "down", "left", "right"}

GameStatus == {"ready", "running", "paused", "gameover"}

RngValues == 0..RngDen

None == <<>>

Some(p) == <<p>>

Pt(px, py) == [x |-> px, y |-> py]

Max(a, b) == IF a >= b THEN a ELSE b

Min(a, b) == IF a <= b THEN a ELSE b

Abs(a) == IF a >= 0 THEN a ELSE -a

\* the % of the source language: the result takes the sign of the dividend
JsRem(a, n) == IF a >= 0 THEN a % n ELSE -((-a) % n)

\* ------------------------------------------------------------------------
\* GridModel
\* ------------------------------------------------------------------------

\* isOpposite that knows only the vertical pair
isOppositeVertical(a, b) ==
    \/ a = "up" /\ b = "down"
    \/ a = "down" /\ b = "up"

isOpposite(a, b) ==
    \/ a = "up" /\ b = "down"
    \/ a = "down" /\ b = "up"
    \/ a = "left" /\ b = "right"
    \/ a = "right" /\ b = "left"

movePoint(point, direction) ==
    CASE direction = "up" -> Pt(point.x, point.y - 1)
      [] direction = "down" -> Pt(point.x, point.y + 1)
      [] direction = "left" -> Pt(point.x - 1, point.y)
      [] direction = "right" -> Pt(point.x + 1, point.y)

pointKey(point) == ToString(point.x) \o "," \o ToString(point.y)

\* wrapPoint that takes the remainder without adding the size first
wrapPointOfRemainder(point, sz) == Pt(JsRem(point.x, sz), JsRem(point.y, sz))

wrapPoint(point, sz) == Pt(JsRem(point.x + sz, sz), JsRem(point.y + sz, sz))

\* isInnerPoint that takes the right and bottom border for interior
isInnerPointOrBorder(point, sz) ==
    point.x > 0 /\ point.x < sz /\ point.y > 0 /\ point.y < sz

isInnerPoint(point, sz) ==
    point.x > 0 /\ point.x < sz - 1 /\ point.y > 0 /\ point.y < sz - 1

orthogonalNeighbors(point, sz) ==
    << wrapPoint(Pt(point.x + 1, point.y), sz),
       wrapPoint(Pt(point.x - 1, point.y), sz),
       wrapPoint(Pt(point.x, point.y + 1), sz),
       wrapPoint(Pt(point.x, point.y - 1), sz) >>

\* new Set(points.map(pointKey))
KeySet(points) == { pointKey(points[i]) : i \in DOMAIN points }

\* the cells visited by "for y ... for x ..." in that order
GridCells(sz) ==
    IF sz <= 0 THEN <<>>
    ELSE [i \in 1..(sz * sz) |-> Pt((i - 1) % sz, (i - 1) \div sz)]

\* Math.min(Math.floor(rng() * n), n - 1), as an index from 1
PickIndex(r, n) == Min((r * n) \div RngDen, n - 1) + 1

\* ------------------------------------------------------------------------
\* SpawnPlanner
\* ------------------------------------------------------------------------

freeExitCount(point, occupied, sz) ==
    LET nb == orthogonalNeighbors(point, sz)
    IN Cardinality({ i \in 1..4 : pointKey(nb[i]) \notin occupied })

\* position i of the neighbour list is skipped by the loop: already seen or occupied
NeighborSkipped(nb, i, occupied) ==
    \/ pointKey(nb[i]) \in occupied
    \/ \E j \in 1..(i - 1) :
          pointKey(nb[j]) \notin occupied /\ pointKey(nb[j]) = pointKey(nb[i])

NeighborDelta(neighbor, occupied, sz) ==
    LET exitsBefore == freeExitCount(neighbor, occupied, sz)
        exitsAfter == Max(0, exitsBefore - 1)
        wasDeadEnd == exitsBefore <= 1
        isDeadEnd == exitsAfter <= 1
    IN IF ~wasDeadEnd /\ isDeadEnd THEN 1
       ELSE IF wasDeadEnd /\ ~isDeadEnd THEN -1
       ELSE 0

RECURSIVE SumDeltas(_, _, _, _)
SumDeltas(nb, i, occupied, sz) ==
    IF i > Len(nb) THEN 0
    ELSE (IF NeighborSkipped(nb, i, occupied) THEN 0
          ELSE NeighborDelta(nb[i], occupied, sz))
         + SumDeltas(nb, i + 1, occupied, sz)

deadEndDelta(occupied, candidate, sz) ==
    (IF freeExitCount(candidate, occupied, sz) <= 1 THEN -1 ELSE 0)
    + SumDeltas(orthogonalNeighbors(candidate, sz), 1, occupied, sz)

\* createsAdditionalDeadEnds that tolerates one new dead end
createsSeveralDeadEnds(occupied, candidate, sz) ==
    IF pointKey(candidate) \in occupied THEN TRUE
    ELSE deadEndDelta(occupied, candidate, sz) > 1

createsAdditionalDeadEnds(occupied, candidate, sz) ==
    IF pointKey(candidate) \in occupied THEN TRUE
    ELSE deadEndDelta(occupied, candidate, sz) > 0

\* twice the Manhattan distance to the centre (size - 1) / 2
CenterDist2(point, sz) ==
    Abs(2 * point.x - (sz - 1)) + Abs(2 * point.y - (sz - 1))

BetterCandidate(best, current, sz) ==
    LET bestDist == CenterDist2(best, sz)
        currentDist == CenterDist2(current, sz)
    IN IF currentDist < bestDist THEN current
       ELSE IF currentDist > bestDist THEN best
       ELSE IF current.y < best.y THEN current
       ELSE IF current.y > best.y THEN best
       ELSE IF current.x < best.x THEN current ELSE best

RECURSIVE ReduceCandidates(_, _, _, _)
ReduceCandidates(options, i, best, sz) ==
    IF i > Len(options) THEN best
    ELSE LET Rest(b) == ReduceCandidates(options, i + 1, b, sz)
         IN CHOOSE r \in { Rest(b) : b \in {BetterCandidate(best, options[i], sz)} } : TRUE

\* firstObstacleCandidate that takes the first option in row-major order
firstOption(options, sz) == options[1]

firstObstacleCandidate(options, sz) ==
    ReduceCandidates(options, 2, options[1], sz)

\* FoodPool that takes every cell of the grid for an option
FoodPoolAnyCell(points, sz) ==
    LET occupied == KeySet(points)
        IsSafe(p) == freeExitCount(p, occupied, sz) >= 2
        options == GridCells(sz)
        safeOptions == SelectSeq(options, IsSafe)
    IN IF Len(safeOptions) > 0 THEN safeOptions ELSE options

\* FoodPool without the preference for cells with two free exits
FoodPoolEveryFreeCell(points, sz) ==
    LET occupied == KeySet(points)
        IsFree(p) == pointKey(p) \notin occupied
    IN SelectSeq(GridCells(sz), IsFree)

\* spawnFood draws one rng value iff its pool is not empty
FoodPool(points, sz) ==
    LET occupied == KeySet(points)
        IsFree(p) == pointKey(p) \notin occupied
        IsSafe(p) == freeExitCount(p, occupied, sz) >= 2
        options == SelectSeq(GridCells(sz), IsFree)
        safeOptions == SelectSeq(options, IsSafe)
    IN IF Len(safeOptions) > 0 THEN safeOptions ELSE options

spawnFood(points, sz, rng) ==
    LET pool == FoodPool(points, sz)
    IN IF Len(pool) = 0 THEN [point |-> Pt(-1, -1), used |-> 0]
       ELSE [point |-> pool[PickIndex(rng[1], Len(pool))], used |-> 1]

ObstacleOptions(occupied, sz) ==
    LET IsOption(p) == pointKey(p) \notin occupied /\ isInnerPoint(p, sz)
    IN SelectSeq(GridCells(sz), IsOption)

SafeObstacleOptions(occupied, sz) ==
    LET IsSafe(p) == ~createsAdditionalDeadEnds(occupied, p, sz)
    IN SelectSeq(ObstacleOptions(occupied, sz), IsSafe)

spawnObstacle(occupiedPoints, sz, rng) ==
    LET occupied == KeySet(occupiedPoints)
        safeOptions == SafeObstacleOptions(occupied, sz)
    IN IF Len(safeOptions) = 0 THEN [point |-> None, used |-> 0]
       ELSE [point |-> Some(safeOptions[PickIndex(rng[1], Len(safeOptions))]),
             used |-> 1]

RECURSIVE SpawnObstaclesLoop(_, _, _, _, _, _, _)
SpawnObstaclesLoop(occupied, sz, count, rng, i, obstacles, used) ==
    IF i >= count THEN [obstacles |-> obstacles, used |-> used]
    ELSE LET safeOptions == SafeObstacleOptions(occupied, sz)
         IN IF Len(safeOptions) = 0
            THEN [obstacles |-> obstacles, used |-> used]
            ELSE LET pick == IF i = 0
                             THEN firstObstacleCandidate(safeOptions, sz)
                             ELSE safeOptions[PickIndex(rng[used + 1], Len(safeOptions))]
                 IN SpawnObstaclesLoop(occupied \cup {pointKey(pick)}, sz, count, rng,
                                       i + 1, Append(obstacles, pick),
                                       IF i = 0 THEN used ELSE used + 1)

spawnObstacles(points, sz, count, rng) ==
    IF count <= 0 THEN [obstacles |-> <<>>, used |-> 0]
    ELSE SpawnObstaclesLoop(KeySet(points), sz, count, rng, 0, <<>>, 0)

\* ------------------------------------------------------------------------
\* SimulationKernel
\* ------------------------------------------------------------------------

createInitialState(sz, obstacleCount, rng) ==
    LET mid == sz \div 2
        snake == << Pt(mid, mid), Pt(mid - 1, mid), Pt(mid - 2, mid) >>
        initialFood == Pt(mid, Max(1, mid - 3))
        spawned == spawnObstacles(Append(snake, initialFood), sz, obstacleCount, rng)
    IN [ state |-> [ snake |-> snake,
                     direction |-> "right",
                     food |-> initialFood,
                     obstacles |-> spawned.obstacles,
                     lastSpawnedObstacle |-> None,
                     score |-> 0,
                     fruitsEaten |-> 0,
                     status |-> "ready" ],
         used |-> spawned.used,
         raised |-> FALSE ]

applyDirection(st, direction) ==
    IF isOpposite(st.direction, direction) THEN st
    ELSE IF st.status = "ready"
         THEN [st EXCEPT !.direction = direction, !.status = "running"]
         ELSE [st EXCEPT !.direction = direction]

\* which return of applyDirection is taken
applyDirectionBranch(st, direction) ==
    IF isOpposite(st.direction, direction) THEN "rejected"
    ELSE IF st.status = "ready" THEN "started" ELSE "turned"

\* the next head without the wrap
nextHeadOfUnwrapped(st, sz) == movePoint(st.snake[1], st.direction)

nextHeadOf(st, sz) == wrapPoint(movePoint(st.snake[1], st.direction), sz)

\* state.snake.slice(0, -1)
DropLast(s) == IF Len(s) = 0 THEN s ELSE SubSeq(s, 1, Len(s) - 1)

\* the collision check without the obstacles
hitsBody(st, sz) ==
    pointKey(nextHeadOf(st, sz)) \in KeySet(DropLast(st.snake))

hitsBodyOrObstacle(st, sz) ==
    LET nextHead == nextHeadOf(st, sz)
        bodySet == KeySet(DropLast(st.snake))
        obstacleSet == KeySet(st.obstacles)
    IN pointKey(nextHead) \in bodySet \/ pointKey(nextHead) \in obstacleSet

ateFoodAt(st, nextHead) == nextHead.x = st.food.x /\ nextHead.y = st.food.y

\* nextSnake that never drops the tail
nextSnakeKeepingTail(st, nextHead) == <<nextHead>> \o st.snake

nextSnakeOf(st, nextHead) ==
    IF ateFoodAt(st, nextHead) THEN <<nextHead>> \o st.snake
    ELSE DropLast(<<nextHead>> \o st.snake)

\* shouldSpawnObstacle that asks for an obstacle with every fruit
shouldSpawnObstacleAlways(nextFruits) == nextFruits % 1 = 0

shouldSpawnObstacle(nextFruits) == nextFruits % ObstacleEvery = 0

\* the growth branch of stepGame
growSnake(st, sz, rng) ==
    LET nextHead == nextHeadOf(st, sz)
        nextSnake == nextSnakeOf(st, nextHead)
        nextFruits == st.fruitsEaten + 1
        spawned == IF shouldSpawnObstacle(nextFruits)
                   THEN spawnObstacle(nextSnake \o st.obstacles, sz, rng)
                   ELSE [point |-> None, used |-> 0]
        nextObstacle == spawned.point
        obstacles == IF nextObstacle # None
                     THEN st.obstacles \o nextObstacle
                     ELSE st.obstacles
        lastSpawnedObstacle == IF nextObstacle # None
                               THEN nextObstacle
                               ELSE st.lastSpawnedObstacle
        fed == spawnFood(nextSnake \o obstacles, sz,
                         SubSeq(rng, spawned.used + 1, Len(rng)))
        nextFood == fed.point
        noFood == nextFood.x < 0
    IN [ state |-> [st EXCEPT !.snake = nextSnake,
                              !.food = nextFood,
                              !.obstacles = obstacles,
                              !.lastSpawnedObstacle = lastSpawnedObstacle,
                              !.score = st.score + 1,
                              !.fruitsEaten = nextFruits,
                              !.status = IF noFood THEN "gameover" ELSE st.status],
         used |-> spawned.used + fed.used,
         branch |-> IF noFood THEN "filled" ELSE "ate" ]

\* stepGame with the number of rng values it drew and the return it took
\* the status guard that lets a paused or ready game step
notRunningGameover(st) == st.status = "gameover"

notRunning(st) == st.status # "running"

stepGameRun(st, sz, rng) ==
    IF notRunning(st)
    THEN [state |-> st, used |-> 0, branch |-> "noop"]
    ELSE IF hitsBodyOrObstacle(st, sz)
    THEN [state |-> [st EXCEPT !.status = "gameover"], used |-> 0,
          branch |-> "collision"]
    ELSE IF ateFoodAt(st, nextHeadOf(st, sz))
    THEN growSnake(st, sz, rng)
    ELSE [state |-> [st EXCEPT !.snake = nextSnakeOf(st, nextHeadOf(st, sz))],
          used |-> 0, branch |-> "moved"]

stepGame(st, sz, rng) == stepGameRun(st, sz, rng).state

\* togglePause that resumes from every status but running
togglePauseAnyStatus(st) ==
    IF st.status = "running" THEN [st EXCEPT !.status = "paused"]
    ELSE [st EXCEPT !.status = "running"]

togglePause(st) ==
    IF st.status = "running" THEN [st EXCEPT !.status = "paused"]
    ELSE IF st.status = "paused" THEN [st EXCEPT !.status = "running"]
    ELSE st

\* ------------------------------------------------------------------------
\* MoveEvaluator (src/game/strategies/utils.ts).  A nullable result is a
\* sequence of length at most one; a Set<string> is a set of keys; a
\* Map<string, V> is a function on keys; the null parent of the start key
\* is the empty string.
\* ------------------------------------------------------------------------

directions == << "up", "down", "left", "right" >>

directionVectors(dir) ==
    CASE dir = "up" -> Pt(0, -1)
      [] dir = "down" -> Pt(0, 1)
      [] dir = "left" -> Pt(-1, 0)
      [] dir = "right" -> Pt(1, 0)

add(a, b) == Pt(a.x + b.x, a.y + b.y)

neighbors(point, sz) ==
    [ i \in 1..Len(directions) |->
        wrapPoint(add(point, directionVectors(directions[i])), sz) ]

\* the for loop of floodFillCount over the neighbours of the dequeued cell
RECURSIVE FloodPush(_, _, _, _, _)
FloodPush(nb, i, queue, visited, blocked) ==
    IF i > Len(nb) THEN queue
    ELSE LET nextKey == pointKey(nb[i])
         IN FloodPush(nb, i + 1,
                      IF nextKey \notin visited /\ nextKey \notin blocked
                      THEN Append(queue, nb[i]) ELSE queue,
                      visited, blocked)

\* the while loop of floodFillCount
RECURSIVE FloodLoop(_, _, _, _)
FloodLoop(queue, visited, blocked, sz) ==
    IF Len(queue) = 0 THEN visited
    ELSE LET current == Head(queue)
             key == pointKey(current)
         IN IF key \in visited \/ key \in blocked
            THEN FloodLoop(Tail(queue), visited, blocked, sz)
            ELSE LET Entered(seen) ==
                         FloodLoop(FloodPush(neighbors(current, sz), 1,
                                             Tail(queue), seen, blocked),
                                   seen, blocked, sz)
                 IN CHOOSE r \in { Entered(seen) : seen \in {visited \cup {key}} } : TRUE

\* floodFillCount that stops at the neighbours of the start cell
floodFillCountNearby(start, sz, blocked) ==
    Cardinality({ k \in {pointKey(start)} \cup KeySet(neighbors(start, sz)) :
                    k \notin blocked /\ pointKey(start) \notin blocked })

floodFillCount(start, sz, blocked) ==
    Cardinality(FloodLoop(<<start>>, {}, blocked, sz))

samePoint(a, b) == a.x = b.x /\ a.y = b.y

\* directionFromStep that tests the vertical offset first
directionFromStepVerticalFirst(start, next, sz) ==
    LET dx == JsRem(next.x - start.x + sz, sz)
        dy == JsRem(next.y - start.y + sz, sz)
    IN IF dy = 1 THEN "down"
       ELSE IF dy = sz - 1 THEN "up"
       ELSE IF dx = 1 THEN "left"
       ELSE "right"

directionFromStep(start, next, sz) ==
    LET dx == JsRem(next.x - start.x + sz, sz)
        dy == JsRem(next.y - start.y + sz, sz)
    IN IF dx = 1 THEN "right"
       ELSE IF dx = sz - 1 THEN "left"
       ELSE IF dy = 1 THEN "down"
       ELSE "up"

\* key.split(",").map(Number): the point whose two decimal numerals the key joins
parsePoint(key, sz) ==
    CHOOSE p \in { Pt(x, y) : x, y \in (-2)..(sz + 1) } : pointKey(p) = key

\* snake.forEach((point, index) => freeTimes.set(pointKey(point), length - index))
RECURSIVE FreeTimesFrom(_, _, _)
FreeTimesFrom(snake, i, freeTimes) ==
    IF i > Len(snake) THEN freeTimes
    ELSE FreeTimesFrom(snake, i + 1,
                       (pointKey(snake[i]) :> (Len(snake) - (i - 1))) @@ freeTimes)

\* free times that let every body cell go one tick too early
buildFreeTimesEarly(snake) ==
    LET freeTimes == FreeTimesFrom(snake, 1, << >>)
    IN [ key \in DOMAIN freeTimes |-> freeTimes[key] - 1 ]

buildFreeTimes(snake) == FreeTimesFrom(snake, 1, << >>)

\* the arrival test of bfsPathWithTiming that never lets a body cell be entered
EnterableOnlyOffBody(nextKey, arrival, cameFrom, obstacleSet, freeTimes) ==
    /\ nextKey \notin DOMAIN cameFrom
    /\ nextKey \notin obstacleSet
    /\ nextKey \notin DOMAIN freeTimes

\* the arrival test of bfsPathWithTiming without the free times
EnterableIgnoringBody(nextKey, arrival, cameFrom, obstacleSet, freeTimes) ==
    nextKey \notin DOMAIN cameFrom /\ nextKey \notin obstacleSet

\* the neighbour is neither seen nor an obstacle nor a body cell not yet vacated
Enterable(nextKey, arrival, cameFrom, obstacleSet, freeTimes) ==
    /\ nextKey \notin DOMAIN cameFrom
    /\ nextKey \notin obstacleSet
    /\ ~(nextKey \in DOMAIN freeTimes /\ arrival < freeTimes[nextKey])

\* the for loop of bfsPathWithTiming over the neighbours of the dequeued cell
RECURSIVE BfsPush(_, _, _, _, _, _, _)
BfsPush(nb, i, currentKey, distance, search, obstacleSet, freeTimes) ==
    IF i > Len(nb) THEN search
    ELSE LET nextKey == pointKey(nb[i])
             arrival == distance + 1
             Pushed == [ queue |-> Append(search.queue, nb[i]),
                         cameFrom |-> (nextKey :> currentKey) @@ search.cameFrom,
                         distances |-> (nextKey :> arrival) @@ search.distances ]
             Continue(s) == BfsPush(nb, i + 1, currentKey, distance, s,
                                    obstacleSet, freeTimes)
         IN CHOOSE r \in
              { Continue(s) :
                  s \in { IF Enterable(nextKey, arrival, search.cameFrom,
                                       obstacleSet, freeTimes)
                          THEN Pushed ELSE search } } : TRUE

\* the while loop of bfsPathWithTiming; the result is cameFrom
RECURSIVE BfsLoop(_, _, _, _, _)
BfsLoop(search, targetKey, sz, obstacleSet, freeTimes) ==
    IF Len(search.queue) = 0 THEN search.cameFrom
    ELSE LET current == Head(search.queue)
             currentKey == pointKey(current)
             distance == IF currentKey \in DOMAIN search.distances
                         THEN search.distances[currentKey] ELSE 0
             Continue(s) == BfsLoop(s, targetKey, sz, obstacleSet, freeTimes)
         IN IF currentKey = targetKey THEN search.cameFrom
            ELSE CHOOSE r \in
                   { Continue(s) :
                       s \in { BfsPush(neighbors(current, sz), 1, currentKey, distance,
                                       [search EXCEPT !.queue = Tail(search.queue)],
                                       obstacleSet, freeTimes) } } : TRUE

\* while (currentKey) { path.push(parsePoint(currentKey)); ... }, then reverse
RECURSIVE PathBack(_, _, _, _)
PathBack(currentKey, cameFrom, path, sz) ==
    IF currentKey = "" THEN path
    ELSE PathBack(IF currentKey \in DOMAIN cameFrom THEN cameFrom[currentKey] ELSE "",
                  cameFrom, <<parsePoint(currentKey, sz)>> \o path, sz)

bfsPathWithTiming(start, target, sz, snake, obstacles) ==
    LET startKey == pointKey(start)
        targetKey == pointKey(target)
        cameFrom == BfsLoop([ queue |-> <<start>>,
                              cameFrom |-> (startKey :> ""),
                              distances |-> (startKey :> 0) ],
                            targetKey, sz, KeySet(obstacles), buildFreeTimes(snake))
        Outcome(found) ==
            IF targetKey \notin DOMAIN found THEN None
            ELSE Some(PathBack(targetKey, found, <<>>, sz))
    IN CHOOSE r \in { Outcome(found) : found \in {cameFrom} } : TRUE

\* simulateSnakePath that grows the snake at every step of the path
simulateSnakePathGrowing(snake, path, food) ==
    [ i \in 1..(Len(path) - 1 + Len(snake)) |->
        IF i < Len(path) THEN path[Len(path) + 1 - i] ELSE snake[i - Len(path) + 1] ]

RECURSIVE SimulateFrom(_, _, _, _)
SimulateFrom(nextSnake, path, i, food) ==
    IF i > Len(path) THEN nextSnake
    ELSE SimulateFrom(IF samePoint(path[i], food)
                      THEN <<path[i]>> \o nextSnake
                      ELSE DropLast(<<path[i]>> \o nextSnake),
                      path, i + 1, food)

\* path[0] is the current head; the loop starts at index 1
simulateSnakePath(snake, path, food) == SimulateFrom(snake, path, 2, food)

\* stepSnake that never grows the snake
stepSnakeSliding(snake, nextHead, food) == DropLast(<<nextHead>> \o snake)

stepSnake(snake, nextHead, food) ==
    IF samePoint(nextHead, food) THEN <<nextHead>> \o snake
    ELSE DropLast(<<nextHead>> \o snake)

hasPathToTail(snake, sz, obstacles) ==
    bfsPathWithTiming(snake[1], snake[Len(snake)], sz, snake, obstacles) # None

isFoodReachable(st, sz) ==
    bfsPathWithTiming(st.snake[1], st.food, sz, st.snake, st.obstacles) # None

directionToTail(st, sz) ==
    LET head == st.snake[1]
        tail == st.snake[Len(st.snake)]
        tailPath == bfsPathWithTiming(head, tail, sz, st.snake, st.obstacles)
        dir == directionFromStep(head, tailPath[1][2], sz)
    IN IF tailPath # None /\ Len(tailPath[1]) > 1 /\ ~isOpposite(st.direction, dir)
       THEN Some(dir)
       ELSE None

\* const nextHead = wrapPoint(movePoint(head, direction), size)
nextHeadForMove(st, sz, direction) == wrapPoint(movePoint(st.snake[1], direction), sz)

\* const nextSnake = stepSnake(state.snake, nextHead, state.food)
nextSnakeForMove(st, sz, direction) ==
    stepSnake(st.snake, nextHeadForMove(st, sz, direction), st.food)

\* the search of evaluateMove under the timing of the snake before the move
pathFromHeadTiming(st, sz, direction) ==
    bfsPathWithTiming(nextHeadForMove(st, sz, direction), st.food, sz,
                      st.snake, st.obstacles)

pathFromNext(st, sz, direction) ==
    bfsPathWithTiming(nextHeadForMove(st, sz, direction), st.food, sz,
                      nextSnakeForMove(st, sz, direction), st.obstacles)

\* the verdict of evaluateMove once the move is known not to collide
MoveVerdict(st, sz, direction) ==
    LET head == st.snake[1]
        WithPath(path) ==
            LET fullPath == <<head>> \o path
                simulatedSnake == simulateSnakePath(st.snake, fullPath, st.food)
                blockedAfterFood == KeySet(DropLast(simulatedSnake))
                                      \cup KeySet(st.obstacles)
            IN [ direction |-> direction,
                 pathLength |-> Some(Len(path)),
                 safe |-> hasPathToTail(simulatedSnake, sz, st.obstacles),
                 space |-> floodFillCount(simulatedSnake[1], sz, blockedAfterFood) ]
        WithoutPath ==
            LET blockedAfterStep == KeySet(DropLast(nextSnakeForMove(st, sz, direction)))
                                      \cup KeySet(st.obstacles)
            IN [ direction |-> direction,
                 pathLength |-> None,
                 safe |-> FALSE,
                 space |-> floodFillCount(nextHeadForMove(st, sz, direction), sz,
                                          blockedAfterStep) ]
        Verdict(found) == IF found # None THEN WithPath(found[1]) ELSE WithoutPath
    IN CHOOSE r \in { Verdict(found) : found \in {pathFromNext(st, sz, direction)} } : TRUE

\* evaluateMove without the test of the landing cell
evaluateMoveUnblocked(st, sz, direction) ==
    IF isOpposite(st.direction, direction) THEN None
    ELSE Some(MoveVerdict(st, sz, direction))

evaluateMove(st, sz, direction) ==
    IF isOpposite(st.direction, direction) THEN None
    ELSE LET blockedForMove == KeySet(DropLast(st.snake)) \cup KeySet(st.obstacles)
         IN IF pointKey(nextHeadForMove(st, sz, direction)) \in blockedForMove THEN None
            ELSE Some(MoveVerdict(st, sz, direction))

\* ------------------------------------------------------------------------
\* StrategyPolicy: pickAggressiveDirection (src/game/strategies/aggressive.ts)
\* and pickSpaceDirection (src/game/strategies/space.ts), and the step the
\* driving loop makes with a policy (advancePlayer, src/App.tsx).  A null
\* pathLength compares as Number.POSITIVE_INFINITY.
\* ------------------------------------------------------------------------

\* (a ?? Infinity) < (b ?? Infinity)
ShorterPath(a, b) == a # None /\ (b = None \/ a[1] < b[1])

\* (a ?? Infinity) === (b ?? Infinity)
SamePathLength(a, b) == (a = None /\ b = None) \/ (a # None /\ b # None /\ a[1] = b[1])

betterByShortestPath(candidate, current) ==
    IF current = None THEN TRUE
    ELSE IF ShorterPath(candidate.pathLength, current[1].pathLength) THEN TRUE
    ELSE IF SamePathLength(candidate.pathLength, current[1].pathLength)
            /\ candidate.space > current[1].space THEN TRUE
    ELSE FALSE

betterBySpace(candidate, current) ==
    IF current = None THEN TRUE
    ELSE IF candidate.space > current[1].space THEN TRUE
    ELSE IF candidate.space = current[1].space
            /\ ShorterPath(candidate.pathLength, current[1].pathLength) THEN TRUE
    ELSE FALSE

\* the for loop of pickAggressiveDirection over directions
RECURSIVE AggressiveLoop(_, _, _, _, _)
AggressiveLoop(st, sz, i, bestPath, bestSpace) ==
    IF i > Len(directions) THEN [bestPath |-> bestPath, bestSpace |-> bestSpace]
    ELSE LET Judged(evaluation) ==
               IF evaluation = None
               THEN AggressiveLoop(st, sz, i + 1, bestPath, bestSpace)
               ELSE IF evaluation[1].pathLength # None
               THEN AggressiveLoop(st, sz, i + 1,
                                   IF betterByShortestPath(evaluation[1], bestPath)
                                   THEN evaluation ELSE bestPath,
                                   bestSpace)
               ELSE AggressiveLoop(st, sz, i + 1, bestPath,
                                   IF betterBySpace(evaluation[1], bestSpace)
                                   THEN evaluation ELSE bestSpace)
         IN CHOOSE r \in { Judged(e) : e \in { evaluateMove(st, sz, directions[i]) } } : TRUE

pickAggressiveDirection(st, sz) ==
    IF ~isFoodReachable(st, sz) THEN None
    ELSE LET Chosen(best) ==
               IF best.bestPath # None THEN Some(best.bestPath[1].direction)
               ELSE IF best.bestSpace # None THEN Some(best.bestSpace[1].direction)
               ELSE directionToTail(st, sz)
         IN CHOOSE r \in { Chosen(b) : b \in { AggressiveLoop(st, sz, 1, None, None) } } : TRUE

\* the for loop of pickSpaceDirection over directions
RECURSIVE SpaceLoop(_, _, _, _)
SpaceLoop(st, sz, i, best) ==
    IF i > Len(directions) THEN best
    ELSE LET Judged(evaluation) ==
               IF evaluation = None THEN SpaceLoop(st, sz, i + 1, best)
               ELSE SpaceLoop(st, sz, i + 1,
                              IF betterBySpace(evaluation[1], best) THEN evaluation ELSE best)
         IN CHOOSE r \in { Judged(e) : e \in { evaluateMove(st, sz, directions[i]) } } : TRUE

pickSpaceDirection(st, sz) ==
    IF ~isFoodReachable(st, sz) THEN None
    ELSE LET Chosen(best) ==
               IF best # None THEN Some(best[1].direction) ELSE directionToTail(st, sz)
         IN CHOOSE r \in { Chosen(b) : b \in { SpaceLoop(st, sz, 1, None) } } : TRUE

\* strategyMap[strategy](state, size), for the two policies modelled
pickAutopilotDirection(st, sz, strategy) ==
    IF strategy = "aggressive" THEN pickAggressiveDirection(st, sz)
    ELSE pickSpaceDirection(st, sz)

\* advancePlayer with the direction the policy returned; the grid size is a
\* parameter where the application fixes GRID_SIZE
advanceWith(st, sz, nextDirection, rng) ==
    IF nextDirection = None
    THEN [state |-> [st EXCEPT !.status = "gameover"], used |-> 0, branch |-> "no move"]
    ELSE stepGameRun([st EXCEPT !.direction = nextDirection[1], !.status = "running"],
                     sz, rng)

advancePlayerRun(st, sz, strategy, manual, rng) ==
    IF st.status # "running" THEN [state |-> st, used |-> 0, branch |-> "noop"]
    ELSE IF manual THEN stepGameRun(st, sz, rng)
    ELSE advanceWith(st, sz, pickAutopilotDirection(st, sz, strategy), rng)

advancePlayer(st, sz, strategy, manual, rng) ==
    advancePlayerRun(st, sz, strategy, manual, rng).state

\* ------------------------------------------------------------------------
\* The kernel as a state machine: a game is constructed, then driven by
\* applyDirection, togglePause and stepGame calls.
\* ------------------------------------------------------------------------

RngSeqs(n) == [1..n -> RngValues]

Call(op, arg, branch, used, raised) ==
    [op |-> op, arg |-> arg, branch |-> branch, used |-> used, raised |-> raised]

\* a game on the smallest well-formed grid
Init ==
    \E count \in 0..MaxObstacleCount :
      \E rng \in RngSeqs(Max(count - 1, 0)) :
        LET made == createInitialState(MinSize, count, rng)
        IN /\ state = made.state
           /\ size = MinSize
           /\ call = Call("createInitialState", count, "created", made.used, made.raised)
           /\ horizon = MaxFruits
           /\ taken = <<>>
           /\ picked = <<>>
           /\ given = <<>>
           /\ answer = <<>>

ApplyDirection ==
    \E direction \in Directions :
      /\ state' = applyDirection(state, direction)
      /\ call' = Call("applyDirection", direction,
                      applyDirectionBranch(state, direction), 0, FALSE)
      /\ UNCHANGED <<size, horizon, taken, picked, given, answer>>

TogglePause ==
    /\ state' = togglePause(state)
    /\ call' = Call("togglePause", 0,
                    IF state.status \in {"running", "paused"} THEN "toggled" ELSE "noop",
                    0, FALSE)
    /\ UNCHANGED <<size, horizon, taken, picked, given, answer>>

StepGame ==
    /\ state.fruitsEaten < horizon
    /\ \E run \in { stepGameRun(state, size, rng) : rng \in RngSeqs(2) } :
         /\ state' = run.state
         /\ call' = Call("stepGame", 0, run.branch, run.used, FALSE)
    /\ UNCHANGED <<size, horizon, taken, picked, given, answer>>

Next == ApplyDirection \/ TogglePause \/ StepGame

Spec == Init /\ [][Next]_vars

\* ------------------------------------------------------------------------
\* The same machine, started also from two later snapshots of games on the
\* 4 x 4 grid, so that the tenth fruit (an obstacle spawn) and the last free
\* cell (board filled) are within the horizon.
\*
\* LateGame is the state of createInitialState(4, 0) after the headings
\*   up, right, up, left, left, down, down, right, right, down, right, down,
\*   left, down, right, right, up, up, up, left, left, down, right, down,
\*   left, left
\* each applied with applyDirection and followed by stepGame; nine of the
\* steps eat, the food draws pick (3,0), (1,0), (1,2), (3,3), (0,0), (0,1),
\* (1,3), (2,0), (2,3), and the fifth fruit spawns the obstacle (2,1).
\*
\* EndGame is the state of createInitialState(4, 0) after 57 steps along the
\* zigzag cycle of the torus (right, then repeatedly down, left, left, left,
\* down, right, right, right); eleven of the steps eat, the food draws pick
\* (3,3), (0,3), (0,2), (1,2), (3,3), (3,0), (0,2), (2,3), (1,0), (3,0),
\* (2,1), and no obstacle candidate survives at the fifth and tenth fruit.
\* ------------------------------------------------------------------------

\* fruits a late game may still eat
LateFruits == 2

Path(coords) == [i \in DOMAIN coords |-> Pt(coords[i][1], coords[i][2])]

LateGame ==
    [ snake |-> Path(<< <<2, 0>>, <<3, 0>>, <<0, 0>>, <<0, 3>>, <<3, 3>>,
                        <<3, 2>>, <<0, 2>>, <<1, 2>>, <<1, 3>>, <<1, 0>>,
                        <<1, 1>>, <<0, 1>> >>),
      direction |-> "left",
      food |-> Pt(2, 3),
      obstacles |-> << Pt(2, 1) >>,
      lastSpawnedObstacle |-> Some(Pt(2, 1)),
      score |-> 9,
      fruitsEaten |-> 9,
      status |-> "running" ]

EndGame ==
    [ snake |-> Path(<< <<3, 0>>, <<2, 0>>, <<1, 0>>, <<0, 0>>, <<0, 3>>,
                        <<1, 3>>, <<2, 3>>, <<3, 3>>, <<3, 2>>, <<2, 2>>,
                        <<1, 2>>, <<0, 2>>, <<0, 1>>, <<1, 1>> >>),
      direction |-> "right",
      food |-> Pt(2, 1),
      obstacles |-> <<>>,
      lastSpawnedObstacle |-> None,
      score |-> 11,
      fruitsEaten |-> 11,
      status |-> "running" ]

LateStates == {LateGame, EndGame}

InitLate ==
    /\ state \in LateStates
    /\ size = 4
    /\ call = Call("stepGame", 0, "ate", 1, FALSE)
    /\ horizon = state.fruitsEaten + LateFruits
    /\ taken = <<>>
    /\ picked = <<>>
    /\ given = <<>>
    /\ answer = <<>>

SpecLate == (Init \/ InitLate) /\ [][Next]_vars

\* ------------------------------------------------------------------------
\* createInitialState alone: every call, valid arguments or not.
\* ------------------------------------------------------------------------

InitCreate ==
    /\ size = MinSize
    /\ state = createInitialState(MinSize, 0, <<>>).state
    /\ call = Call("none", 0, "input", 0, FALSE)
    /\ horizon = 0
    /\ taken = <<>>
    /\ picked = <<>>
    /\ given = <<>>
    /\ answer = <<>>

CreateInitialState ==
    /\ call.op = "none"
    /\ \E sz \in (-1)..MaxCreateSize, count \in (-1)..MaxObstacleCount :
         \E made \in { createInitialState(sz, count, rng) :
                          rng \in RngSeqs(Max(count - 1, 0)) } :
            /\ size' = sz
            /\ state' = made.state
            /\ call' = Call("createInitialState", count, "created", made.used, made.raised)
    /\ UNCHANGED <<horizon, taken, picked, given, answer>>

NextCreate == CreateInitialState

SpecCreate == InitCreate /\ [][NextCreate]_vars

\* ------------------------------------------------------------------------
\* The spawn planner alone: spawnObstacle and spawnObstacles called on
\* occupancy lists of at most MaxOccupied cells.
\* ------------------------------------------------------------------------

\* strictly increasing index sequences of length at most k over 1..n
IncreasingSeqs(n, k) ==
    { s \in UNION { [1..m -> 1..n] : m \in 0..k } :
        \A i \in 1..(Len(s) - 1) : s[i] < s[i + 1] }

RECURSIVE CellsAt(_, _, _)
CellsAt(cells, s, i) ==
    IF i > Len(s) THEN <<>> ELSE <<cells[s[i]]>> \o CellsAt(cells, s, i + 1)

OccupancyLists(sz) ==
    { CellsAt(GridCells(sz), s, 1) : s \in IncreasingSeqs(sz * sz, MaxOccupied) }

InitSpawn ==
    \E sz \in 1..MaxSize :
      /\ size = sz
      /\ taken \in OccupancyLists(sz)
      /\ picked = <<>>
      /\ given = <<>>
      /\ answer = <<>>
      /\ call = Call("none", 0, "input", 0, FALSE)
      /\ state = createInitialState(MinSize, 0, <<>>).state
      /\ horizon = 0

SpawnObstacle ==
    /\ call.op = "none"
    /\ \E rng \in RngSeqs(1) :
      \E spawned \in {spawnObstacle(taken, size, rng)} :
         /\ picked' = spawned.point
         /\ given' = SubSeq(rng, 1, spawned.used)
         /\ call' = Call("spawnObstacle", 1,
                         IF spawned.point = None THEN "none" ELSE "picked",
                         spawned.used, FALSE)
         /\ UNCHANGED <<state, size, horizon, taken, answer>>

SpawnObstacles ==
    /\ call.op = "none"
    /\ \E count \in (-1)..MaxObstacleCount :
      \E rng \in RngSeqs(Max(count - 1, 0)) :
        \E spawned \in {spawnObstacles(taken, size, count, rng)} :
           /\ picked' = spawned.obstacles
           /\ given' = SubSeq(rng, 1, spawned.used)
           /\ call' = Call("spawnObstacles", count,
                           IF Len(spawned.obstacles) < count THEN "stopped" ELSE "picked",
                           spawned.used, FALSE)
           /\ UNCHANGED <<state, size, horizon, taken, answer>>

NextSpawn == SpawnObstacle \/ SpawnObstacles

SpecSpawn == InitSpawn /\ [][NextSpawn]_vars

\* ------------------------------------------------------------------------
\* spawnFood alone: one call on every grid up to MaxFoodSize, for every
\* occupancy of at most MaxOccupied cells and every occupancy that leaves at
\* most MaxFree cells free (the full grid included).
\* ------------------------------------------------------------------------

\* the cells of the grid, in scan order, without those at the given indices
CellsWithout(cells, s) ==
    LET Kept(i) == \A j \in DOMAIN s : s[j] # i
        Keep(kept, i) == IF Kept(i) THEN Append(kept, cells[i]) ELSE kept
        RECURSIVE From(_, _)
        From(kept, i) == IF i > Len(cells) THEN kept ELSE From(Keep(kept, i), i + 1)
    IN From(<<>>, 1)

CrowdedLists(sz) ==
    { CellsWithout(GridCells(sz), s) : s \in IncreasingSeqs(sz * sz, MaxFree) }

InitFood ==
    \E sz \in 1..MaxFoodSize :
      /\ size = sz
      /\ taken \in OccupancyLists(sz) \cup CrowdedLists(sz)
      /\ picked = <<>>
      /\ given = <<>>
      /\ answer = <<>>
      /\ call = Call("none", 0, "input", 0, FALSE)
      /\ state = createInitialState(MinSize, 0, <<>>).state
      /\ horizon = 0

SpawnFood ==
    /\ call.op = "none"
    /\ \E rng \in RngSeqs(1) :
      \E fed \in {spawnFood(taken, size, rng)} :
         /\ picked' = <<fed.point>>
         /\ given' = SubSeq(rng, 1, fed.used)
         /\ call' = Call("spawnFood", 0,
                         IF fed.point.x < 0 THEN "none" ELSE "picked",
                         fed.used, FALSE)
         /\ UNCHANGED <<state, size, horizon, taken, answer>>

NextFood == SpawnFood

SpecFood == InitFood /\ [][NextFood]_vars

OppositeOf(d) ==
    CASE d = "up" -> "down" [] d = "down" -> "up"
      [] d = "left" -> "right" [] d = "right" -> "left"

\* ------------------------------------------------------------------------
\* The strategy helpers alone: one call of bfsPathWithTiming,
\* directionToTail or evaluateMove on a board of a well-formed game.  The
\* snake is a self-avoiding walk of MinSnake..MaxSnake cells from the corner
\* or the middle of the grid, the obstacles are at most MaxEvalObstacles
\* interior cells off the snake, the food is a free cell.
\* ------------------------------------------------------------------------

\* the largest grid the helpers are called on
MaxEvalSize == 4

\* the longest snake the helpers are called on
MaxSnake == 4

\* the most obstacles on a board the helpers are called on
MaxEvalObstacles == 1

\* createInitialState builds a snake of three cells and the snake never shrinks
MinSnake == 3

HeadCells(sz) == { Pt(0, 0), Pt(sz \div 2, sz \div 2) }

RECURSIVE Walks(_, _, _)
Walks(sz, from, n) ==
    IF n <= 1 THEN { <<from>> }
    ELSE UNION { { Append(w, c) :
                     c \in { wrapPoint(movePoint(w[Len(w)], d), sz) : d \in Directions }
                             \ { w[i] : i \in DOMAIN w } } :
                 w \in Walks(sz, from, n - 1) }

Snakes(sz) ==
    UNION { Walks(sz, h, n) : h \in HeadCells(sz), n \in MinSnake..MaxSnake }

\* the interior cells off the snake, in scan order
InteriorOff(snake, sz) ==
    SelectSeq(GridCells(sz),
              LAMBDA c : isInnerPoint(c, sz) /\ \A i \in DOMAIN snake : snake[i] # c)

ObstacleLists(snake, sz) ==
    { CellsAt(InteriorOff(snake, sz), s, 1) :
        s \in IncreasingSeqs(Len(InteriorOff(snake, sz)), MaxEvalObstacles) }

\* the cells neither on the snake nor an obstacle
OpenCells(st, sz) ==
    { c \in { Pt(x, y) : x, y \in 0..(sz - 1) } :
        /\ \A i \in DOMAIN st.snake : st.snake[i] # c
        /\ \A i \in DOMAIN st.obstacles : st.obstacles[i] # c }

\* the direction the snake last moved in
Travel(snake, sz) == directionFromStep(snake[2], snake[1], sz)

\* a running game on the board: the food on the first open cell in scan
\* order, the heading the direction of travel
Board(snake, obstacles, sz) ==
    LET bare == [ snake |-> snake, direction |-> Travel(snake, sz),
                  food |-> Pt(0, 0), obstacles |-> obstacles,
                  lastSpawnedObstacle |-> None, score |-> 0, fruitsEaten |-> 0,
                  status |-> "running" ]
    IN [ bare EXCEPT !.food =
           CHOOSE c \in OpenCells(bare, sz) :
             \A o \in OpenCells(bare, sz) : c.y < o.y \/ (c.y = o.y /\ c.x <= o.x) ]

\* the worked example: a straight snake heading right on the 10x10 grid, the
\* food two cells ahead of the head
ExampleGame ==
    [ size |-> 10,
      state |-> [ snake |-> << Pt(5, 5), Pt(4, 5), Pt(3, 5) >>,
                  direction |-> "right", food |-> Pt(7, 5), obstacles |-> <<>>,
                  lastSpawnedObstacle |-> None, score |-> 0, fruitsEaten |-> 0,
                  status |-> "running" ] ]

\* a snake of seven cells coiled round a pocket beside its head, the fourth
\* side of the pocket an obstacle
CoiledGame ==
    [ size |-> MinSize,
      state |-> Board(<< Pt(0, 1), Pt(0, 0), Pt(1, 0), Pt(2, 0), Pt(2, 1), Pt(2, 2),
                         Pt(2, 3) >>,
                      << Pt(1, 2) >>, MinSize) ]

\* the coiled snake one step later, its head in the pocket
TrappedGame ==
    [ size |-> MinSize,
      state |-> stepGame(applyDirection(CoiledGame.state, "right"), MinSize, <<>>) ]

\* a closed loop through every cell of the 4x4 torus but (1,1) and (2,1)
SmallLoop ==
    << Pt(0, 1), Pt(0, 0), Pt(1, 0), Pt(2, 0), Pt(3, 0), Pt(3, 1), Pt(3, 2),
       Pt(3, 3), Pt(2, 3), Pt(2, 2), Pt(1, 2), Pt(1, 3), Pt(0, 3), Pt(0, 2) >>

\* a closed loop through every cell of the 5x5 torus but the middle cell and
\* its four neighbours
WideLoop ==
    << Pt(2, 0), Pt(1, 0), Pt(1, 1), Pt(0, 1), Pt(0, 0), Pt(4, 0), Pt(3, 0),
       Pt(3, 1), Pt(4, 1), Pt(4, 2), Pt(0, 2), Pt(0, 3), Pt(1, 3), Pt(1, 4),
       Pt(0, 4), Pt(4, 4), Pt(4, 3), Pt(3, 3), Pt(3, 4), Pt(2, 4) >>

\* the snakes that lie on the loop: any cell the head, either way round
SnakesOnLoop(loop) ==
    LET n == Len(loop)
    IN { [ i \in 1..n |-> loop[((i + k - 1) % n) + 1] ] : k \in 0..(n - 1) } \cup
       { [ i \in 1..n |-> loop[((k - i + n) % n) + 1] ] : k \in 0..(n - 1) }

\* the boards on which the snake chases its tail round a full board: the one
\* cell left free holds the food.  On the small loop the other cell off the
\* loop is an obstacle, on the wide loop the four neighbours of the food are.
LoopGames ==
    { [size |-> MinSize, state |-> Board(snake, << off >>, MinSize)] :
        snake \in SnakesOnLoop(SmallLoop), off \in { Pt(1, 1), Pt(2, 1) } } \cup
    { [size |-> MinSize + 1,
       state |-> Board(snake, << Pt(2, 1), Pt(1, 2), Pt(3, 2), Pt(2, 3) >>, MinSize + 1)] :
        snake \in SnakesOnLoop(WideLoop) }

\* a snake of thirteen cells wound round its own tail on the 4x4 torus: the
\* head and the three free cells form a square, the cell of the body next to
\* the square that is left soonest is left after three ticks
WoundGame ==
    [ size |-> MinSize,
      state |-> Board(<< Pt(1, 1), Pt(1, 2), Pt(1, 3), Pt(0, 3), Pt(0, 2), Pt(3, 2),
                         Pt(3, 3), Pt(3, 0), Pt(3, 1), Pt(2, 1), Pt(2, 0), Pt(2, 3),
                         Pt(2, 2) >>,
                      <<>>, MinSize) ]

Boards ==
    { ExampleGame, CoiledGame, TrappedGame, WoundGame } \cup LoopGames \cup
    { [size |-> b[1], state |-> Board(b[2], b[3], b[1])] :
        b \in UNION { UNION { { <<sz, snake, obstacles>> :
                                  obstacles \in ObstacleLists(snake, sz) } :
                                snake \in Snakes(sz) } :
                      sz \in MinSize..MaxEvalSize } }

InitEval ==
    \E board \in Boards :
          /\ size = board.size
          /\ state = board.state
          /\ call = Call("none", 0, "input", 0, FALSE)
          /\ answer = <<>>
          /\ taken = <<>>
          /\ picked = <<>>
          /\ given = <<>>
          /\ horizon = 0

\* bfsPathWithTiming from the head to any cell of the grid
BfsPathWithTiming ==
    /\ call.op = "none"
    /\ \E target \in { Pt(x, y) : x, y \in 0..(size - 1) } :
         /\ answer' = bfsPathWithTiming(state.snake[1], target, size,
                                        state.snake, state.obstacles)
         /\ call' = Call("bfsPathWithTiming", [start |-> state.snake[1], target |-> target],
                         IF answer' = None THEN "none" ELSE "path", 0, FALSE)
         /\ UNCHANGED <<state, size, horizon, taken, picked, given>>

\* directionToTail under any heading
DirectionToTail ==
    /\ call.op = "none"
    /\ \E heading \in Directions :
         /\ state' = [state EXCEPT !.direction = heading]
         /\ answer' = directionToTail(state', size)
         /\ call' = Call("directionToTail", 0,
                         IF answer' = None THEN "none" ELSE "direction", 0, FALSE)
         /\ UNCHANGED <<size, horizon, taken, picked, given>>

\* evaluateMove of any direction, the food on any open cell, the heading the
\* direction of travel or the one the move reverses
EvaluateMove ==
    /\ call.op = "none"
    /\ \E direction \in Directions :
        \E heading \in { Travel(state.snake, size), OppositeOf(direction) } :
         \E food \in OpenCells(state, size) :
           /\ state' = [state EXCEPT !.direction = heading, !.food = food]
           /\ answer' = evaluateMove(state', size, direction)
           /\ call' = Call("evaluateMove", direction,
                           IF answer' = None THEN "none" ELSE "verdict", 0, FALSE)
           /\ UNCHANGED <<size, horizon, taken, picked, given>>

NextEval == BfsPathWithTiming \/ DirectionToTail \/ EvaluateMove

SpecEval == InitEval /\ [][NextEval]_vars

\* ------------------------------------------------------------------------
\* isFoodReachable alone, on the same boards, the food on any open cell.
\* ------------------------------------------------------------------------

IsFoodReachable ==
    /\ call.op = "none"
    /\ \E food \in OpenCells(state, size) :
         /\ state' = [state EXCEPT !.food = food]
         /\ answer' = Some(isFoodReachable(state', size))
         /\ call' = Call("isFoodReachable", 0,
                         IF isFoodReachable(state', size) THEN "reachable" ELSE "cut off",
                         0, FALSE)
         /\ UNCHANGED <<size, horizon, taken, picked, given>>

NextReach == IsFoodReachable

SpecReach == InitEval /\ [][NextReach]_vars

\* ------------------------------------------------------------------------
\* The policies alone: one call of pickAggressiveDirection or
\* pickSpaceDirection on the same boards, the food on any open cell, the
\* heading the direction of travel or its reverse (two turns between steps).
\* ------------------------------------------------------------------------

PickAggressiveDirection ==
    /\ call.op = "none"
    /\ \E heading \in { Travel(state.snake, size), OppositeOf(Travel(state.snake, size)) } :
        \E food \in OpenCells(state, size) :
         /\ state' = [state EXCEPT !.direction = heading, !.food = food]
         /\ answer' = pickAutopilotDirection(state', size, "aggressive")
         /\ call' = Call("pickAutopilotDirection", "aggressive",
                         IF answer' = None THEN "none" ELSE "direction", 0, FALSE)
         /\ UNCHANGED <<size, horizon, taken, picked, given>>

PickSpaceDirection ==
    /\ call.op = "none"
    /\ \E heading \in { Travel(state.snake, size), OppositeOf(Travel(state.snake, size)) } :
        \E food \in OpenCells(state, size) :
         /\ state' = [state EXCEPT !.direction = heading, !.food = food]
         /\ answer' = pickAutopilotDirection(state', size, "space")
         /\ call' = Call("pickAutopilotDirection", "space",
                         IF answer' = None THEN "none" ELSE "direction", 0, FALSE)
         /\ UNCHANGED <<size, horizon, taken, picked, given>>

NextPolicy == PickAggressiveDirection \/ PickSpaceDirection

SpecPolicy == InitEval /\ [][NextPolicy]_vars

\* ------------------------------------------------------------------------
\* movePoint and wrapPoint alone: one move of any cell of any grid up to
\* MaxSize in any direction, wrapped.
\* ------------------------------------------------------------------------

InitWrap ==
    \E sz \in 1..MaxSize :
      \E p \in { Pt(x, y) : x, y \in 0..(sz - 1) } :
        /\ size = sz
        /\ taken = << p >>
        /\ picked = <<>>
        /\ given = <<>>
        /\ answer = <<>>
        /\ call = Call("none", 0, "input", 0, FALSE)
        /\ state = createInitialState(MinSize, 0, <<>>).state
        /\ horizon = 0

WrapMove ==
    /\ call.op = "none"
    /\ \E d \in Directions :
         /\ answer' = Some(wrapPoint(movePoint(taken[1], d), size))
         /\ call' = Call("wrapPoint", d, "wrapped", 0, FALSE)
         /\ UNCHANGED <<state, size, horizon, taken, picked, given>>

NextWrap == WrapMove

SpecWrap == InitWrap /\ [][NextWrap]_vars

\* ------------------------------------------------------------------------
\* floodFillCount alone: one call from any cell of the grid, the blocked
\* cells those of the occupancy lists spawnFood is called on.
\* ------------------------------------------------------------------------

FloodFillCount ==
    /\ call.op = "none"
    /\ \E start \in { Pt(x, y) : x, y \in 0..(size - 1) } :
         /\ answer' = Some(floodFillCount(start, size, KeySet(taken)))
         /\ call' = Call("floodFillCount", start, "counted", 0, FALSE)
         /\ UNCHANGED <<state, size, horizon, taken, picked, given>>

NextFlood == FloodFillCount

SpecFlood == InitFood /\ [][NextFlood]_vars

\* ------------------------------------------------------------------------
\* Vocabulary of the properties, stated on points rather than on keys
\* ------------------------------------------------------------------------

InSeq(p, points) == \E i \in DOMAIN points : points[i] = p

InBounds(p, sz) == p.x \in 0..(sz - 1) /\ p.y \in 0..(sz - 1)

\* the cell the head enters on the next tick
HeadTarget(st, sz) ==
    LET h == st.snake[1]
        dx == CASE st.direction = "left" -> -1 [] st.direction = "right" -> 1
                [] OTHER -> 0
        dy == CASE st.direction = "up" -> -1 [] st.direction = "down" -> 1
                [] OTHER -> 0
    IN Pt((h.x + dx + sz) % sz, (h.y + dy + sz) % sz)

\* the head target is a snake cell other than the tail, or an obstacle
Collides(st, sz) ==
    \/ \E i \in 1..(Len(st.snake) - 1) : st.snake[i] = HeadTarget(st, sz)
    \/ InSeq(HeadTarget(st, sz), st.obstacles)

Stepped == call'.op = "stepGame"

\* C1: a step of a running state whose next head cell is in snake[:-1] or in
\* obstacles returns status gameover and leaves snake, food, obstacles,
\* direction, score, fruitsEaten and lastSpawnedObstacle as they were.
C1_CollisionEndsGame ==
    [][ (Stepped /\ state.status = "running" /\ Collides(state, size))
        => /\ state'.status = "gameover"
           /\ state'.snake = state.snake
           /\ state'.food = state.food
           /\ state'.obstacles = state.obstacles
           /\ state'.direction = state.direction
           /\ state'.score = state.score
           /\ state'.fruitsEaten = state.fruitsEaten
           /\ state'.lastSpawnedObstacle = state.lastSpawnedObstacle ]_vars

\* a step has just ended the game on an obstacle
C1_Witness ==
    /\ call.op = "stepGame" /\ call.branch = "collision"
    /\ state.status = "gameover"
    /\ InSeq(HeadTarget(state, size), state.obstacles)

\* C2: a step of a running state that does not collide prepends the next
\* head and drops the tail iff the next head is not the food cell; length,
\* fruitsEaten and score grow by one exactly when food is eaten.
C2_GrowOrSlide ==
    [][ (Stepped /\ state.status = "running" /\ ~Collides(state, size))
        => LET nextHead == HeadTarget(state, size)
               ate == nextHead = state.food
               grown == <<nextHead>> \o state.snake
               inc == IF ate THEN 1 ELSE 0
           IN /\ state'.snake = IF ate THEN grown
                                ELSE SubSeq(grown, 1, Len(grown) - 1)
              /\ Len(state'.snake) = Len(state.snake) + inc
              /\ state'.fruitsEaten = state.fruitsEaten + inc
              /\ state'.score = state.score + inc ]_vars

\* a step has just eaten: the snake is longer than at construction
C2_Witness ==
    /\ call.op = "stepGame" /\ call.branch = "ate"
    /\ Len(state.snake) = 3 + state.fruitsEaten
    /\ state.fruitsEaten > 0

\* C3 (as claimed): every kernel call on a gameover state returns a state
\* equal to its input in every field, direction included.
C3_GameoverIsFrozen ==
    [][ state.status = "gameover" => state' = state ]_vars

\* C4: status changes only ready -> running by applyDirection, running ->
\* paused and paused -> running by togglePause, running -> gameover by
\* stepGame; togglePause changes nothing in ready or gameover.
C4_StatusTransitions ==
    [][ /\ state'.status # state.status
           => \/ /\ state.status = "ready" /\ state'.status = "running"
                 /\ call'.op = "applyDirection"
              \/ /\ state.status = "running" /\ state'.status = "paused"
                 /\ call'.op = "togglePause"
              \/ /\ state.status = "paused" /\ state'.status = "running"
                 /\ call'.op = "togglePause"
              \/ /\ state.status = "running" /\ state'.status = "gameover"
                 /\ call'.op = "stepGame"
        /\ (call'.op = "togglePause" /\ state.status \in {"ready", "gameover"})
           => state' = state ]_vars

\* a paused game has just been resumed
C4_Witness ==
    /\ call.op = "togglePause" /\ call.branch = "toggled"
    /\ state.status = "running"

\* C5: stepGame on a ready, paused or gameover state returns its input and
\* draws no random number.
C5_StepOnlyWhenRunning ==
    [][ (Stepped /\ state.status \in {"ready", "paused", "gameover"})
        => state' = state /\ call'.used = 0 ]_vars

\* stepGame has just been called on a paused game
C5_Witness ==
    /\ call.op = "stepGame" /\ call.branch = "noop"
    /\ state.status = "paused"

\* C6: applyDirection with the opposite of the current direction returns its
\* input; with any other direction it sets direction, turns ready into
\* running and leaves every other field alone.
C6_ApplyDirection ==
    [][ call'.op = "applyDirection"
        => LET d == call'.arg
           IN IF d = OppositeOf(state.direction)
              THEN state' = state
              ELSE /\ state'.direction = d
                   /\ state'.status = IF state.status = "ready" THEN "running"
                                      ELSE state.status
                   /\ state'.snake = state.snake
                   /\ state'.food = state.food
                   /\ state'.obstacles = state.obstacles
                   /\ state'.score = state.score
                   /\ state'.fruitsEaten = state.fruitsEaten
                   /\ state'.lastSpawnedObstacle = state.lastSpawnedObstacle ]_vars

\* a reversal has just been refused on a paused game
C6_Witness ==
    /\ call.op = "applyDirection" /\ call.branch = "rejected"
    /\ call.arg = OppositeOf(state.direction)
    /\ state.status = "paused"

\* every cell of the grid is a snake cell or an obstacle
BoardFull(st, sz) ==
    \A cx \in 0..(sz - 1), cy \in 0..(sz - 1) :
        InSeq(Pt(cx, cy), st.snake) \/ InSeq(Pt(cx, cy), st.obstacles)

\* C7: after a step that eats, the new food is in bounds and on neither the
\* new snake nor the new obstacles, or the board is full and the game over.
C7_FoodOnFreeCell ==
    [][ (Stepped /\ state.status = "running" /\ ~Collides(state, size)
         /\ HeadTarget(state, size) = state.food)
        => \/ /\ InBounds(state'.food, size)
              /\ ~InSeq(state'.food, state'.snake)
              /\ ~InSeq(state'.food, state'.obstacles)
           \/ /\ BoardFull(state', size)
              /\ state'.status = "gameover" ]_vars

\* a step has just eaten the tenth fruit and spawned an obstacle with it
C7_Witness ==
    /\ call.op = "stepGame" /\ call.branch = "ate" /\ call.used = 2
    /\ state.lastSpawnedObstacle = Some(state.obstacles[Len(state.obstacles)])
    /\ ~InSeq(state.food, state.snake \o state.obstacles)

\* a step has just eaten the last fruit the board had room for
BoardFilledReached ==
    call.op = "stepGame" /\ call.branch = "filled" /\ state.status = "gameover"

\* C8 (as claimed): for every size > 0 and budget >= 0 createInitialState
\* returns a ready state with score = fruitsEaten = 0, three pairwise
\* distinct in-bounds snake cells, an in-bounds food cell on neither snake
\* nor obstacles, and at most budget obstacles, none on the snake or food.
C8_InitialStateWellFormed ==
    (call.op = "createInitialState" /\ size > 0 /\ call.arg >= 0)
    => /\ state.status = "ready"
       /\ state.score = 0 /\ state.fruitsEaten = 0
       /\ Len(state.snake) = 3
       /\ \A i, j \in 1..3 : i # j => state.snake[i] # state.snake[j]
       /\ \A i \in 1..3 : InBounds(state.snake[i], size)
       /\ InBounds(state.food, size)
       /\ ~InSeq(state.food, state.snake)
       /\ ~InSeq(state.food, state.obstacles)
       /\ Len(state.obstacles) <= call.arg
       /\ \A i \in DOMAIN state.obstacles :
            /\ ~InSeq(state.obstacles[i], state.snake)
            /\ state.obstacles[i] # state.food

\* C9 (as claimed): createInitialState raises an error when the grid size is
\* not positive or the obstacle budget is negative.
C9_InvalidInputRaises ==
    (call.op = "createInitialState" /\ (size <= 0 \/ call.arg < 0))
    => call.raised

PointSet(points) == { points[i] : i \in DOMAIN points }

\* the four toroidal neighbours of a cell
NeighborCells(p, sz) ==
    { Pt((p.x + 1) % sz, p.y), Pt((p.x + sz - 1) % sz, p.y),
      Pt(p.x, (p.y + 1) % sz), Pt(p.x, (p.y + sz - 1) % sz) }

\* a free cell with at most one free neighbour
IsDeadEnd(p, occ, sz) ==
    /\ p \notin occ
    /\ Cardinality({ n \in NeighborCells(p, sz) : n \notin occ }) <= 1

\* the number of dead ends among a cell and its four neighbours
DeadEndsAround(c, occ, sz) ==
    Cardinality({ p \in {c} \cup NeighborCells(c, sz) : IsDeadEnd(p, occ, sz) })

NoNewDeadEnd(c, occ, sz) ==
    DeadEndsAround(c, occ \cup {c}, sz) <= DeadEndsAround(c, occ, sz)

\* C10: for every occupancy and every candidate the planner accepts, the
\* number of dead ends among the candidate and its four neighbours is not
\* larger after the obstacle is placed than before; each pick of a batch is
\* judged against the occupancy grown by the earlier picks.
C10_NoNewDeadEnds ==
    \A k \in 0..Len(picked) :
        LET occ == taken \o SubSeq(picked, 1, k)
        IN /\ \A c \in PointSet(SafeObstacleOptions(KeySet(occ), size)) :
                NoNewDeadEnd(c, PointSet(occ), size)
           /\ k < Len(picked) => NoNewDeadEnd(picked[k + 1], PointSet(occ), size)

\* a batch has placed two obstacles on an occupancy that has a rejected cell
C10_Witness ==
    /\ call.op = "spawnObstacles" /\ Len(picked) = 2
    /\ Len(SafeObstacleOptions(KeySet(taken), size))
         < Len(ObstacleOptions(KeySet(taken), size))

\* ------------------------------------------------------------------------
\* The spawn planner called directly
\* ------------------------------------------------------------------------

Interior(p, sz) == 0 < p.x /\ p.x < sz - 1 /\ 0 < p.y /\ p.y < sz - 1

\* C11: a spawnObstacles batch returns at most count points (none for
\* count <= 0), pairwise distinct, each interior and outside the given
\* occupancy; it raises nothing, and it returns fewer than count points only
\* when no candidate survives on the occupancy grown by its picks;
\* spawnObstacle returns none or one interior cell outside the occupancy.
C11_SpawnObstaclesContract ==
    /\ call.op = "spawnObstacles" =>
          /\ Len(picked) <= Max(call.arg, 0)
          /\ \A i, j \in DOMAIN picked : i # j => picked[i] # picked[j]
          /\ \A i \in DOMAIN picked :
                Interior(picked[i], size) /\ ~InSeq(picked[i], taken)
          /\ ~call.raised
          /\ Len(picked) < call.arg =>
                SafeObstacleOptions(KeySet(taken \o picked), size) = <<>>
    /\ call.op = "spawnObstacle" =>
          /\ Len(picked) <= 1
          /\ \A i \in DOMAIN picked :
                Interior(picked[i], size) /\ ~InSeq(picked[i], taken)
          /\ ~call.raised

\* a batch asked for three obstacles on a non-empty occupancy has placed two
\* and stopped
C11_Witness ==
    /\ call.op = "spawnObstacles" /\ call.arg = 3
    /\ Len(picked) = 2 /\ Len(taken) > 0

\* the candidates that survive on an occupancy, as a set
Survivors(occ, sz) == PointSet(SafeObstacleOptions(KeySet(occ), sz))

\* twice the Manhattan distance of a cell to the centre ((sz-1)/2, (sz-1)/2)
Off(v, sz) == IF 2 * v >= sz - 1 THEN 2 * v - (sz - 1) ELSE (sz - 1) - 2 * v

CentreDistance(p, sz) == Off(p.x, sz) + Off(p.y, sz)

\* p comes before q by distance to the centre, then smaller y, then smaller x
NearerCentre(p, q, sz) ==
    \/ CentreDistance(p, sz) < CentreDistance(q, sz)
    \/ /\ CentreDistance(p, sz) = CentreDistance(q, sz)
       /\ (p.y < q.y \/ (p.y = q.y /\ p.x < q.x))

RowMajorBefore(p, q) == p.y < q.y \/ (p.y = q.y /\ p.x < q.x)

\* the index floor(r * n) clamped to n - 1, for r = k / RngDen
ClampedIndex(k, n) ==
    IF (k * n) \div RngDen > n - 1 THEN n - 1 ELSE (k * n) \div RngDen

\* C12: the first obstacle of a batch is the survivor nearest the centre
\* (ties: smaller y, then smaller x) and draws no rng value; every later
\* obstacle is the survivor at row-major index min(floor(rng() * n), n - 1)
\* of the occupancy grown by the earlier picks, drawing one rng value each.
C12_BatchPickOrder ==
    (call.op = "spawnObstacles" /\ Len(picked) > 0)
    => /\ call.used = Len(picked) - 1
       /\ Len(given) = Len(picked) - 1
       /\ picked[1] \in Survivors(taken, size)
       /\ \A c \in Survivors(taken, size) :
             c # picked[1] => NearerCentre(picked[1], c, size)
       /\ \A k \in 1..(Len(picked) - 1) :
             LET alive == Survivors(taken \o SubSeq(picked, 1, k), size)
             IN /\ picked[k + 1] \in alive
                /\ Cardinality({ c \in alive : RowMajorBefore(c, picked[k + 1]) })
                     = ClampedIndex(given[k], Cardinality(alive))

\* a batch on the 5 x 5 grid took a first obstacle that is not the first
\* survivor in row-major order, and a later one at a clamped index
C12_Witness ==
    /\ call.op = "spawnObstacles" /\ Len(picked) = 3 /\ size = 5
    /\ \E c \in Survivors(taken, size) : RowMajorBefore(c, picked[1])
    /\ given[2] = RngDen

AllCells(sz) == { Pt(x, y) : x, y \in 0..(sz - 1) }

FreeCells(occ, sz) == { c \in AllCells(sz) : ~InSeq(c, occ) }

\* the cell next to c in direction d on the torus
CellToward(c, d, sz) ==
    CASE d = "up" -> Pt(c.x, (c.y + sz - 1) % sz)
      [] d = "down" -> Pt(c.x, (c.y + 1) % sz)
      [] d = "left" -> Pt((c.x + sz - 1) % sz, c.y)
      [] d = "right" -> Pt((c.x + 1) % sz, c.y)

\* the free cells with a free neighbour in at least two of the four directions
RoomyCells(occ, sz) ==
    { c \in FreeCells(occ, sz) :
        Cardinality({ d \in Directions : CellToward(c, d, sz) \in FreeCells(occ, sz) }) >= 2 }

FoodChoices(occ, sz) ==
    IF RoomyCells(occ, sz) # {} THEN RoomyCells(occ, sz) ELSE FreeCells(occ, sz)

\* C13: spawnFood returns (-1,-1) exactly when the grid has no free cell;
\* otherwise it draws one rng value and returns a free cell, one with two
\* free orthogonal neighbours whenever such a free cell exists: the cell at
\* index floor(rng() * n) clamped to n - 1 of the n cells of that pool in
\* scan order.
C13_SpawnFoodContract ==
    call.op = "spawnFood"
    => LET pool == FoodChoices(taken, size)
           food == picked[1]
       IN /\ (food = Pt(-1, -1)) <=> (FreeCells(taken, size) = {})
          /\ FreeCells(taken, size) = {} => call.used = 0
          /\ FreeCells(taken, size) # {} =>
                /\ call.used = 1
                /\ food \in pool
                /\ Cardinality({ c \in pool : RowMajorBefore(c, food) })
                     = ClampedIndex(given[1], Cardinality(pool))

\* the rng value 1 has been clamped to the last cell of a pool that leaves
\* out a free cell with fewer than two free neighbours
C13_Witness ==
    /\ call.op = "spawnFood" /\ given = << RngDen >>
    /\ RoomyCells(taken, size) # {}
    /\ RoomyCells(taken, size) # FreeCells(taken, size)
    /\ picked[1] \in RoomyCells(taken, size)

\* spawnFood has returned the sentinel for a full grid
FoodSentinelReached ==
    call.op = "spawnFood" /\ picked = << Pt(-1, -1) >> /\ size > 1

\* spawnFood has fallen back to a free cell with fewer than two free neighbours
FoodFallbackReached ==
    /\ call.op = "spawnFood" /\ picked[1] \in FreeCells(taken, size)
    /\ RoomyCells(taken, size) = {}

IsPrefix(s, t) == Len(s) <= Len(t) /\ SubSeq(t, 1, Len(s)) = s

\* C14: no call removes or reorders an obstacle; only a step appends, at
\* most one obstacle, and only when it eats and the new fruitsEaten is a
\* multiple of 5; the appended obstacle becomes lastSpawnedObstacle, and a
\* step that appends none leaves obstacles and lastSpawnedObstacle as they
\* were.
C14_ObstaclesAppendOnly ==
    [][ /\ IsPrefix(state.obstacles, state'.obstacles)
        /\ Len(state'.obstacles) <= Len(state.obstacles) + 1
        /\ Len(state'.obstacles) = Len(state.obstacles) + 1
             => /\ Stepped
                /\ HeadTarget(state, size) = state.food
                /\ state'.fruitsEaten = state.fruitsEaten + 1
                /\ state'.fruitsEaten % 5 = 0
                /\ state'.lastSpawnedObstacle
                     = Some(state'.obstacles[Len(state'.obstacles)])
        /\ Len(state'.obstacles) = Len(state.obstacles)
             => state'.lastSpawnedObstacle = state.lastSpawnedObstacle ]_vars

\* the tenth fruit has put a second obstacle behind the first
C14_Witness ==
    /\ call.op = "stepGame" /\ state.fruitsEaten = 10
    /\ Len(state.obstacles) = 2
    /\ state.obstacles[1] = Pt(2, 1)
    /\ state.lastSpawnedObstacle = Some(state.obstacles[2])

\* ------------------------------------------------------------------------
\* Properties of the strategy helpers
\* ------------------------------------------------------------------------

\* b is one step up, down, left or right of a on the torus
TorusStep(a, b, sz) ==
    LET dx == (b.x - a.x + sz) % sz
        dy == (b.y - a.y + sz) % sz
    IN \/ dy = 0 /\ dx \in {1, sz - 1}
       \/ dx = 0 /\ dy \in {1, sz - 1}

\* the tick at which the snake has left the cell: its length minus the index
\* of the cell from the head
FreeTime(snake, j) == Len(snake) - (j - 1)

SearchReturnedPath == call.op = "bfsPathWithTiming" /\ answer # None

\* C15: every path bfsPathWithTiming returns begins at start, ends at
\* target, moves between toroidally adjacent cells, visits no cell twice,
\* holds no obstacle after start, and enters a snake cell at path index i >= 1
\* only when the free time of that cell is at most i.
C15_PathRespectsTiming ==
    SearchReturnedPath =>
      LET path == answer[1]
      IN /\ Len(path) >= 1
         /\ path[1] = call.arg.start
         /\ path[Len(path)] = call.arg.target
         /\ \A i \in 1..(Len(path) - 1) : TorusStep(path[i], path[i + 1], size)
         /\ \A i, j \in DOMAIN path : i # j => path[i] # path[j]
         /\ \A i \in 2..Len(path) :
              /\ \A o \in DOMAIN state.obstacles : state.obstacles[o] # path[i]
              /\ \A j \in DOMAIN state.snake :
                   state.snake[j] = path[i] => FreeTime(state.snake, j) <= i - 1

\* a returned path that crosses a body cell other than the tail, the snake
\* having left it in time
C15_Witness ==
    /\ SearchReturnedPath
    /\ \E i \in 2..Len(answer[1]) :
         \E j \in 1..(Len(state.snake) - 1) : state.snake[j] = answer[1][i]

MoveEvaluated == call.op = "evaluateMove"

\* the cell the head lands on when it moves in direction d
Landing(st, d, sz) == wrapPoint(movePoint(st.snake[1], d), sz)

\* the landing cell is a body cell other than the tail, or an obstacle
LandsOnBodyOrObstacle(st, d, sz) ==
    \/ \E i \in 1..(Len(st.snake) - 1) : st.snake[i] = Landing(st, d, sz)
    \/ \E i \in DOMAIN st.obstacles : st.obstacles[i] = Landing(st, d, sz)

\* C16: evaluateMove returns none exactly when the direction reverses the
\* heading or the head would land on snake[:-1] or an obstacle; when it
\* returns a verdict, applyDirection followed by stepGame on the running
\* state does not collide, and the hypothetical post-move snake equals the
\* snake stepGame returns.
C16_VerdictMatchesStep ==
    MoveEvaluated =>
      /\ answer = None <=>
           \/ call.arg = OppositeOf(state.direction)
           \/ LandsOnBodyOrObstacle(state, call.arg, size)
      /\ answer # None =>
           \A rng \in RngSeqs(2) :
             LET stepped == stepGameRun(applyDirection(state, call.arg), size, rng)
             IN /\ stepped.branch # "collision"
                /\ stepped.branch # "noop"
                /\ stepped.state.snake = nextSnakeForMove(state, size, call.arg)

\* a verdict for a move onto the food: both snakes grow by the new head
C16_Witness ==
    /\ MoveEvaluated
    /\ answer # None
    /\ Landing(state, call.arg, size) = state.food
    /\ Len(nextSnakeForMove(state, size, call.arg)) = Len(state.snake) + 1
    /\ call.arg # state.direction

\* evaluateMove declines a move that does not reverse the heading
MoveDeclinedForLanding ==
    /\ MoveEvaluated
    /\ answer = None
    /\ call.arg # OppositeOf(state.direction)

\* the snake after the move in direction d, grown only when the head lands
\* on the food
PostMove(st, d, sz) ==
    IF Landing(st, d, sz) = st.food
    THEN <<Landing(st, d, sz)>> \o st.snake
    ELSE <<Landing(st, d, sz)>> \o SubSeq(st.snake, 1, Len(st.snake) - 1)

\* the search from the landing cell to the food under the post-move snake
FoodSearch(st, d, sz) ==
    bfsPathWithTiming(Landing(st, d, sz), st.food, sz, PostMove(st, d, sz), st.obstacles)

VerdictReturned == MoveEvaluated /\ answer # None

\* C17: in every verdict, pathLength is the number of cells of the path
\* bfsPathWithTiming finds from the hypothetical head to the food under the
\* post-move snake's timing and the current obstacles, and is null exactly
\* when there is no such path; on the example board the verdict for right
\* has pathLength 2 and safe true.
C17_PathLengthIsSearchLength ==
    VerdictReturned =>
      /\ \E found \in { FoodSearch(state, call.arg, size) } :
           /\ found = None <=> answer[1].pathLength = None
           /\ found # None => answer[1].pathLength = Some(Len(found[1]))
      /\ (size = ExampleGame.size /\ state = ExampleGame.state /\ call.arg = "right")
           => answer[1].pathLength = Some(2) /\ answer[1].safe = TRUE

\* the verdict for right on the example board
C17_Witness ==
    /\ VerdictReturned
    /\ size = ExampleGame.size
    /\ state = ExampleGame.state
    /\ call.arg = "right"
    /\ answer[1].pathLength = Some(2)

\* a verdict without a path to the food
NoPathToFoodReached == VerdictReturned /\ answer[1].pathLength = None

\* a verdict whose path is longer than the torus distance: the body is in the way
DetourReached ==
    /\ VerdictReturned
    /\ answer[1].pathLength # None
    /\ \E k \in 1..(size * size) :
         /\ answer[1].pathLength = Some(k)
         /\ LET h == Landing(state, call.arg, size)
                dx == (state.food.x - h.x + size) % size
                dy == (state.food.y - h.y + size) % size
            IN k - 1 > Min(dx, size - dx) + Min(dy, size - dy)

\* the cells of a sequence in the opposite order
Reversed(s) == [ i \in 1..Len(s) |-> s[Len(s) + 1 - i] ]

\* the snake once it has walked the path from its head to the food and
\* eaten: the cells of the path newest first, then the old snake, cut to one
\* cell more than the old length
PostArrival(st, path) ==
    SubSeq(Reversed(path) \o st.snake, 1, Len(st.snake) + 1)

\* C18: in a verdict with a path to the food, safe is true exactly when
\* bfsPathWithTiming finds a path from the head to the tail of the
\* post-arrival snake, whose head is the food cell and whose length is the
\* snake's length plus one; in a verdict without a path, safe is false.
C18_SafeIffTailReachableAfterFood ==
    VerdictReturned =>
      \E found \in { FoodSearch(state, call.arg, size) } :
        /\ found = None => answer[1].safe = FALSE
        /\ found # None =>
             \E after \in { PostArrival(state, found[1]) } :
               /\ after[1] = state.food
               /\ Len(after) = Len(state.snake) + 1
               /\ answer[1].safe <=>
                    bfsPathWithTiming(after[1], after[Len(after)], size, after,
                                      state.obstacles) # None

\* a verdict whose path to the food is longer than one step and that is
\* safe
C18_Witness ==
    /\ VerdictReturned
    /\ \E k \in 3..(size * size) : answer[1].pathLength = Some(k)
    /\ answer[1].safe = TRUE

\* a verdict with a path to the food after which the tail is out of reach
UnsafeFoodReached ==
    /\ VerdictReturned
    /\ answer[1].pathLength # None
    /\ answer[1].safe = FALSE

\* the cells one step of the torus away from the cells of the region that
\* are not blocked, added to the region
Grown(region, blockedCells, sz) ==
    region \cup { c \in { Pt(x, y) : x, y \in 0..(sz - 1) } :
                    c \notin blockedCells /\ \E r \in region : TorusStep(r, c, sz) \/ r = c }

\* the cells joined to start by steps of the torus over cells that are not
\* blocked; empty when start is blocked
RECURSIVE ComponentFrom(_, _, _)
ComponentFrom(region, blockedCells, sz) ==
    IF Grown(region, blockedCells, sz) = region THEN region
    ELSE ComponentFrom(Grown(region, blockedCells, sz), blockedCells, sz)

Component(start, blockedCells, sz) ==
    IF start \in blockedCells THEN {}
    ELSE ComponentFrom({start}, blockedCells, sz)

BlockedCells == { taken[i] : i \in DOMAIN taken }

FloodCounted == call.op = "floodFillCount"

\* C19: floodFillCount returns the number of cells of the connected
\* component of non-blocked cells that holds start: 1 when start is free and
\* its four neighbours are blocked, 0 when start is blocked.
C19_FloodFillCountsComponent ==
    FloodCounted =>
      /\ answer = Some(Cardinality(Component(call.arg, BlockedCells, size)))
      /\ call.arg \in BlockedCells => answer = Some(0)
      /\ ( /\ call.arg \notin BlockedCells
           /\ \A d \in Directions :
                wrapPoint(movePoint(call.arg, d), size) \in BlockedCells )
           => answer = Some(1)

\* a start cell cut off from other free cells: the count is below the
\* number of free cells and above one
C19_Witness ==
    /\ FloodCounted
    /\ \E n \in 2..(size * size) :
         /\ answer = Some(n)
         /\ n < size * size - Cardinality(BlockedCells)

\* a free start cell whose four neighbours are blocked
WalledStartReached ==
    /\ FloodCounted
    /\ size >= 3
    /\ call.arg \notin BlockedCells
    /\ \A d \in Directions : wrapPoint(movePoint(call.arg, d), size) \in BlockedCells
    /\ answer = Some(1)

\* a blocked start cell
BlockedStartReached == FloodCounted /\ call.arg \in BlockedCells /\ answer = Some(0)

TailDirectionAsked == call.op = "directionToTail"

\* the search directionToTail runs: from the head to the last cell of the snake
TailSearch(st, sz) ==
    bfsPathWithTiming(st.snake[1], st.snake[Len(st.snake)], sz, st.snake, st.obstacles)

\* the direction of the step from cell a to the adjacent cell b
StepDirection(a, b, sz) == CHOOSE d \in Directions : wrapPoint(movePoint(a, d), sz) = b

\* C20: for a snake of at least three pairwise distinct cells, a direction
\* returned by directionToTail is not the reverse of the heading and does not
\* land the head on snake[:-1] or an obstacle; directionToTail returns none
\* when there is no path to the tail or the first step of the path reverses
\* the heading.
C20_TailDirectionIsValid ==
    TailDirectionAsked =>
      /\ answer # None =>
           /\ answer[1] # OppositeOf(state.direction)
           /\ ~LandsOnBodyOrObstacle(state, answer[1], size)
           /\ ~Collides([state EXCEPT !.direction = answer[1]], size)
      /\ \E found \in { TailSearch(state, size) } :
           /\ found = None => answer = None
           /\ found # None =>
                \E first \in { StepDirection(found[1][1], found[1][2], size) } :
                  IF first = OppositeOf(state.direction)
                  THEN answer = None
                  ELSE answer = Some(first)

\* a direction returned although a neighbour of the head other than the
\* one behind it is a body cell
C20_Witness ==
    /\ TailDirectionAsked
    /\ answer # None
    /\ \E d \in Directions \ {state.direction, OppositeOf(state.direction)} :
         LandsOnBodyOrObstacle(state, d, size)

\* none because the first step to the tail reverses the heading
TailBehindReached ==
    /\ TailDirectionAsked
    /\ answer = None
    /\ TailSearch(state, size) # None

\* none because the tail cannot be reached
TailOutOfReach ==
    /\ TailDirectionAsked
    /\ TailSearch(state, size) = None

\* ------------------------------------------------------------------------
\* Properties of isFoodReachable and of the search behind it
\* ------------------------------------------------------------------------

ReachabilityAsked == call.op = "isFoodReachable"

\* the head is one step of the torus away from the tail
ClosedLoop(st, sz) == TorusStep(st.snake[1], st.snake[Len(st.snake)], sz)

\* every cell but the food cell is a snake cell or an obstacle
FoodIsOnlyFreeCell(st, sz) ==
    \A c \in { Pt(x, y) : x, y \in 0..(sz - 1) } :
      c # st.food <=> \/ \E i \in DOMAIN st.snake : st.snake[i] = c
                      \/ \E i \in DOMAIN st.obstacles : st.obstacles[i] = c

FoodNeighbours(st, sz) == { c \in { Pt(x, y) : x, y \in 0..(sz - 1) } : TorusStep(st.food, c, sz) }

\* all four neighbours of the food are snake cells or obstacles
FoodEnclosed(st, sz) ==
    /\ Cardinality(FoodNeighbours(st, sz)) = 4
    /\ \A c \in FoodNeighbours(st, sz) :
         \/ \E i \in DOMAIN st.snake : st.snake[i] = c
         \/ \E i \in DOMAIN st.obstacles : st.obstacles[i] = c

FoodWalledByObstacles(st, sz) ==
    \A c \in FoodNeighbours(st, sz) : \E i \in DOMAIN st.obstacles : st.obstacles[i] = c

TailChaseOnFullBoard ==
    /\ ReachabilityAsked
    /\ ClosedLoop(state, size)
    /\ FoodIsOnlyFreeCell(state, size)
    /\ FoodEnclosed(state, size)

\* C21 as claimed: on a closed tail-chase loop whose only free cell is the
\* enclosed food cell, isFoodReachable returns false.
C21_EnclosedFoodUnreachable == TailChaseOnFullBoard => answer = Some(FALSE)

\* C21 as amended: on a closed tail-chase loop whose only free cell is the
\* enclosed food cell, isFoodReachable returns false exactly when all four
\* neighbours of the food are obstacles; when one of them is a snake cell the
\* head reaches it by following its tail and the result is true.
C21_EnclosedFoodUnreachableBehindObstacles ==
    TailChaseOnFullBoard =>
      (answer = Some(FALSE) <=> FoodWalledByObstacles(state, size))

\* the food walled in by four obstacles inside a full loop
C21_Witness ==
    /\ TailChaseOnFullBoard
    /\ FoodWalledByObstacles(state, size)
    /\ answer = Some(FALSE)

\* the food beside body cells of a full loop, and reachable
FoodBehindBodyReached ==
    /\ TailChaseOnFullBoard
    /\ ~FoodWalledByObstacles(state, size)
    /\ ~TorusStep(state.snake[1], state.food, size)
    /\ answer = Some(TRUE)

\* ------------------------------------------------------------------------
\* Properties of the policies
\* ------------------------------------------------------------------------

PolicyAsked == call.op = "pickAutopilotDirection"

\* C22: a direction returned by pickAggressiveDirection or pickSpaceDirection
\* is not the reverse of the heading, and the step advancePlayer makes with
\* it (the direction set, then stepGame) does not end in a collision.
C22_PolicyMoveIsLegal ==
    (PolicyAsked /\ answer # None) =>
      /\ answer[1] # OppositeOf(state.direction)
      /\ ~LandsOnBodyOrObstacle(state, answer[1], size)
      /\ \A rng \in RngSeqs(2) :
           LET advanced == advanceWith(state, size, answer, rng)
           IN /\ advanced.branch \notin {"collision", "noop", "no move"}
              /\ advanced.state.snake[1] = Landing(state, answer[1], size)

\* a direction returned with a body cell or an obstacle beside the head,
\* other than the cell behind it
C22_Witness ==
    /\ PolicyAsked
    /\ answer # None
    /\ \E d \in Directions \ {Travel(state.snake, size), OppositeOf(Travel(state.snake, size))} :
         LandsOnBodyOrObstacle(state, d, size)

\* a policy that returns no direction
PolicyDeclined == PolicyAsked /\ answer = None

\* ------------------------------------------------------------------------
\* Properties of movePoint and wrapPoint
\* ------------------------------------------------------------------------

MoveWrapped == call.op = "wrapPoint"

\* the offset of a move in direction d along each axis
Shift(d) ==
    CASE d = "up" -> Pt(0, -1) [] d = "down" -> Pt(0, 1)
      [] d = "left" -> Pt(-1, 0) [] d = "right" -> Pt(1, 0)

\* C23: for a point inside the grid, any size above 0 and any direction,
\* wrap(move(p, d), s) has both coordinates in [0, s) and is p shifted by one
\* cell along exactly one axis modulo s.
C23_WrappedMoveStaysOnGrid ==
    MoveWrapped =>
      /\ answer[1].x \in 0..(size - 1)
      /\ answer[1].y \in 0..(size - 1)
      /\ answer[1].x = (taken[1].x + Shift(call.arg).x) % size
      /\ answer[1].y = (taken[1].y + Shift(call.arg).y) % size

\* a move off the top or left edge comes back on the opposite edge
C23_Witness ==
    /\ MoveWrapped
    /\ size >= 3
    /\ \/ call.arg = "up" /\ taken[1].y = 0 /\ answer[1].y = size - 1
       \/ call.arg = "left" /\ taken[1].x = 0 /\ answer[1].x = size - 1

\* ------------------------------------------------------------------------
\* Completeness of the search
\* ------------------------------------------------------------------------

\* the tick from which the cell may be entered: its free time if it is a
\* snake cell, else 0
FreeFrom(c, snake) ==
    IF \E j \in DOMAIN snake : snake[j] = c
    THEN FreeTime(snake, CHOOSE j \in DOMAIN snake : snake[j] = c)
    ELSE 0

\* the cells one step away from a cell
StepsFrom(c, sz) == { n \in { Pt(x, y) : x, y \in 0..(sz - 1) } : TorusStep(c, n, sz) }

\* a path of pairwise distinct, obstacle-free cells leads from cur, reached
\* at the given tick over the visited cells, to the target, each cell
\* entered at a tick not before its free time.  Once the tick has reached the
\* snake's length every cell is free, and any way through unvisited cells
\* that are no obstacles will do.
RECURSIVE FeasibleFrom(_, _, _, _, _, _, _)
FeasibleFrom(cur, visited, tick, target, snake, obstacleCells, sz) ==
    IF cur = target THEN TRUE
    ELSE IF tick >= Len(snake)
    THEN target \in ComponentFrom({cur}, obstacleCells \cup (visited \ {cur}), sz)
    ELSE \E n \in StepsFrom(cur, sz) \ (visited \cup obstacleCells) :
           /\ FreeFrom(n, snake) <= tick + 1
           /\ FeasibleFrom(n, visited \cup {n}, tick + 1, target, snake, obstacleCells, sz)

TimeFeasiblePathExists(start, target, snake, obstacles, sz) ==
    FeasibleFrom(start, {start}, 0, target, snake,
                 { obstacles[i] : i \in DOMAIN obstacles }, sz)

SearchAnswered == call.op = "bfsPathWithTiming"

\* C25 as claimed: bfsPathWithTiming returns no path only if no time-feasible
\* path from start to target exists: no sequence of adjacent, pairwise
\* distinct, obstacle-free cells in which the cell at index i >= 1 is no snake
\* cell or has free time at most i.
C25_NoPathOnlyIfNoneFeasible ==
    (SearchAnswered /\ answer = None) =>
      ~TimeFeasiblePathExists(call.arg.start, call.arg.target, state.snake,
                              state.obstacles, size)

\* the search finds nothing although a time-feasible path exists
C25_MissedPath ==
    /\ SearchAnswered
    /\ answer = None
    /\ TimeFeasiblePathExists(call.arg.start, call.arg.target, state.snake,
                              state.obstacles, size)

\* ------------------------------------------------------------------------
\* The heading between steps
\* ------------------------------------------------------------------------

\* C26 as claimed: whatever applyDirection calls came between two steps, a
\* step of a running game with a snake of at least 3 cells does not move the
\* head into the cell of snake[1], the cell the head came from.
C26_StepNeverReversesIntoNeck ==
    [][ (Stepped /\ state.status = "running" /\ Len(state.snake) >= 3)
        => HeadTarget(state, size) # state.snake[2] ]_vars

\* two accepted turns between steps have left the heading pointing at the
\* cell behind the head
HeadingReversedReached ==
    /\ state.status = "running"
    /\ Len(state.snake) >= 3
    /\ call.op = "applyDirection"
    /\ HeadTarget(state, size) = state.snake[2]

\* ------------------------------------------------------------------------
\* The open space of a verdict
\* ------------------------------------------------------------------------

\* the snake the space of a verdict is counted for: the post-arrival snake
\* when the food is in reach of the landing cell, the post-move snake
\* otherwise
SnakeCounted(st, d, sz) ==
    IF FoodSearch(st, d, sz) = None THEN PostMove(st, d, sz)
    ELSE PostArrival(st, FoodSearch(st, d, sz)[1])

\* the cells the head of a snake can reach, its own cell included, without
\* crossing an obstacle or a snake cell other than the tail
HeadReach(snake, obstacles, sz) ==
    ComponentFrom({ snake[1] },
                  { snake[i] : i \in 2..(Len(snake) - 1) }
                    \cup { obstacles[i] : i \in DOMAIN obstacles },
                  sz)

\* C27 as claimed: in every verdict of evaluateMove on a snake of at least 2
\* cells, space is at least 1, the head's own cell being counted, and is the
\* number of cells the head (post-arrival, or hypothetical when the food is
\* out of reach) can reach without crossing obstacles or snake cells other
\* than the tail.
C27_SpaceCountsHeadReach ==
    (VerdictReturned /\ Len(state.snake) >= 2) =>
      /\ answer[1].space >= 1
      /\ answer[1].space =
           Cardinality(HeadReach(SnakeCounted(state, call.arg, size),
                                 state.obstacles, size))

\* a verdict whose space is 0 although the head can reach other cells
SpaceZeroReached ==
    /\ VerdictReturned
    /\ Len(state.snake) >= 2
    /\ answer[1].space = 0
    /\ Cardinality(HeadReach(SnakeCounted(state, call.arg, size),
                             state.obstacles, size)) > 1

\* ------------------------------------------------------------------------
\* The kernel driven along a path of bfsPathWithTiming: the search from the
\* head to the food on a running board whose heading is the direction of
\* travel, then, for each further cell of the path, applyDirection toward
\* the cell and one stepGame.  given is the snake the path was planned for,
\* picked the food it leads to, taken the cells still ahead, horizon the
\* number of steps made.
\* ------------------------------------------------------------------------

InitDrive ==
    \E board \in { b \in Boards : Len(b.state.snake) >= MinSnake } :
      \E food \in OpenCells(board.state, board.size) :
          /\ size = board.size
          /\ state = [ board.state EXCEPT !.food = food,
                                          !.direction = Travel(board.state.snake, board.size) ]
          /\ call = Call("none", 0, "input", 0, FALSE)
          /\ answer = <<>>
          /\ taken = <<>>
          /\ picked = << food >>
          /\ given = board.state.snake
          /\ horizon = 0

PlanPath ==
    /\ call.op = "none"
    /\ answer' = bfsPathWithTiming(state.snake[1], state.food, size,
                                   state.snake, state.obstacles)
    /\ taken' = IF answer' = None THEN <<>> ELSE Tail(answer'[1])
    /\ call' = Call("bfsPathWithTiming", [start |-> state.snake[1], target |-> state.food],
                    IF answer' = None THEN "none" ELSE "path", 0, FALSE)
    /\ UNCHANGED <<state, size, horizon, picked, given>>

DriveTurn ==
    /\ call.op \in {"bfsPathWithTiming", "stepGame"}
    /\ taken # <<>>
    /\ \E direction \in { directionFromStep(state.snake[1], taken[1], size) } :
         /\ state' = applyDirection(state, direction)
         /\ call' = Call("applyDirection", direction,
                         applyDirectionBranch(state, direction), 0, FALSE)
    /\ UNCHANGED <<size, horizon, taken, picked, given, answer>>

DriveStep ==
    /\ call.op = "applyDirection"
    /\ \E run \in { stepGameRun(state, size, rng) : rng \in RngSeqs(2) } :
         /\ state' = run.state
         /\ call' = Call("stepGame", 0, run.branch, run.used, FALSE)
    /\ taken' = Tail(taken)
    /\ horizon' = horizon + 1
    /\ UNCHANGED <<size, picked, given, answer>>

NextDrive == PlanPath \/ DriveTurn \/ DriveStep

SpecDrive == InitDrive /\ [][NextDrive]_vars

\* C28: on a running board of at least 3 distinct snake cells, the food on
\* an open cell and the heading the direction of the last move, driving the
\* kernel along a path bfsPathWithTiming returns from the head to the food
\* never ends in a collision, every applyDirection is accepted, each step
\* puts the head on the next cell of the path, and the head is on the food
\* cell after exactly len(path) - 1 steps and not before.
C28_DrivenPathReachesFood ==
    /\ call.op = "applyDirection" =>
         /\ call.branch # "rejected"
         /\ state.direction = call.arg
         /\ state.status = "running"
    /\ call.op = "stepGame" =>
         /\ call.branch \notin {"collision", "noop"}
         /\ state.snake[1] = answer[1][horizon + 1]
         /\ (state.snake[1] = picked[1]) <=> (horizon = Len(answer[1]) - 1)
         /\ (taken = <<>>) <=> (horizon = Len(answer[1]) - 1)
         /\ taken = <<>> => call.branch \in {"ate", "filled"}

\* the drive has come to the food along a path of at least three steps that
\* crosses a cell the snake lay on when the path was planned
C28_Witness ==
    /\ call.op = "stepGame"
    /\ taken = <<>>
    /\ horizon >= 3
    /\ state.snake[1] = picked[1]
    /\ \E i \in 2..Len(answer[1]) : \E j \in DOMAIN given : answer[1][i] = given[j]

\* the search finds no path to the food: there is nothing to drive along
NothingToDrive ==
    /\ call.op = "bfsPathWithTiming"
    /\ answer = None
    /\ given # <<>>

\* ------------------------------------------------------------------------
\* The snake's shape
\* ------------------------------------------------------------------------

\* the snake's cells are in bounds, pairwise distinct and off the obstacles
SnakeCellsClean(st, sz) ==
    /\ \A i \in DOMAIN st.snake : InBounds(st.snake[i], sz)
    /\ \A i, j \in DOMAIN st.snake : i # j => st.snake[i] # st.snake[j]
    /\ \A i \in DOMAIN st.snake : \A o \in DOMAIN st.obstacles :
         st.snake[i] # st.obstacles[o]

\* each cell of the snake is one step of the torus from the next
SnakeConnected(st, sz) ==
    \A i \in 1..(Len(st.snake) - 1) : TorusStep(st.snake[i], st.snake[i + 1], sz)

\* C29: from a state whose snake cells are pairwise distinct, in bounds and
\* off the obstacles and whose food is not on the snake, every sequence of
\* applyDirection, togglePause and stepGame calls keeps the snake cells
\* pairwise distinct, in bounds, off the obstacles, and each cell one step
\* of the torus from the next.
C29_SnakeStaysWellFormed ==
    /\ SnakeCellsClean(state, size)
    /\ SnakeConnected(state, size)

\* a step has just eaten the fruit that spawns an obstacle, the snake now
\* longer than at the start and lying across the edge of the grid
C29_Witness ==
    /\ call.op = "stepGame"
    /\ call.branch = "ate"
    /\ state.lastSpawnedObstacle # None
    /\ Len(state.snake) > MinSnake
    /\ \E i \in 1..(Len(state.snake) - 1) :
         Abs(state.snake[i].x - state.snake[i + 1].x)
           + Abs(state.snake[i].y - state.snake[i + 1].y) > 1

\* ------------------------------------------------------------------------
\* The driving loop (src/App.tsx): handleStart has set every game running
\* with lastEatSimTime = 0, and the interval timer ticks while a game runs.
\* One player is modelled, the players being advanced independently of each
\* other: given holds its mode (manual, or the policy that steers it), and
\* horizon the simulated time since its last fruit, now - lastEatSimTime,
\* the only form in which the loop reads the two clocks.  The timeouts and
\* their thresholds are scaled down to a few ticks and fruits, and the
\* random draws of a steered game are the same at every tick.  The points,
\* the survival carry and the lap and end times, which no test of the loop
\* reads, are not modelled: score is left as stepGame counts it.
\* ------------------------------------------------------------------------

\* TICK_MS, the simulated time of one tick at every speed up to 4x
TickMs == 120

\* TIMEOUT_LOW_MS, TIMEOUT_MID_MS and TIMEOUT_HIGH_MS, scaled to 3, 4 and 5 ticks
TimeoutLowMs == 360

TimeoutMidMs == 480

TimeoutHighMs == 600

\* TIMEOUT_MID_THRESHOLD and TIMEOUT_HIGH_THRESHOLD, scaled
TimeoutMidThreshold == 2

TimeoutHighThreshold == 11

getTimeoutMs(fruitsEaten) ==
    IF fruitsEaten >= TimeoutHighThreshold THEN TimeoutHighMs
    ELSE IF fruitsEaten >= TimeoutMidThreshold THEN TimeoutMidMs
    ELSE TimeoutLowMs

startIfReady(st) == IF st.status = "ready" THEN [st EXCEPT !.status = "running"] ELSE st

\* a clock that stops at the middle window
sinceLastFruitStopped(elapsed, ate) ==
    IF ate THEN 0 ELSE Min(elapsed + TickMs, TimeoutMidMs)

\* now - lastEatSimTime after the tick: now has advanced by the tick's
\* simulated time, and lastEatSimTime is set to now when a fruit was eaten
sinceLastFruit(elapsed, ate) == IF ate THEN 0 ELSE elapsed + TickMs

\* the rest of the interval callback for one player, once advancePlayer has
\* returned: the reset of lastEatSimTime when a fruit was eaten, then the
\* timeout test
TickRun(st, elapsed, advanced) ==
    LET sinceFruit == sinceLastFruit(elapsed, advanced.state.fruitsEaten > st.fruitsEaten)
        timedOut == /\ advanced.state.status = "running"
                    /\ sinceFruit >= getTimeoutMs(advanced.state.fruitsEaten)
    IN [ state |-> IF timedOut THEN [advanced.state EXCEPT !.status = "gameover"]
                   ELSE advanced.state,
         elapsed |-> sinceFruit,
         used |-> advanced.used,
         branch |-> IF timedOut THEN "timeout" ELSE advanced.branch ]

\* the random draws of a steered game, the same at every tick of the game
TickRngs == { << 0, 0 >>, << 2, 2 >> }

\* handleStart on a fresh match
FreshGames == { startIfReady(createInitialState(MinSize, 0, << >>).state) }

\* handleStart has just run: a fresh match steered by a policy, or one of
\* the two later snapshots, steered or played by hand, its last fruit just
\* eaten; picked holds the draws of a steered game
InitLoop ==
    \E mode \in {"manual", "aggressive", "space"} :
      \E started \in IF mode = "manual" THEN LateStates ELSE FreshGames \cup LateStates :
        \E draws \in IF mode = "manual" THEN { << >> } ELSE TickRngs :
          /\ state = started
          /\ size = MinSize
          /\ call = Call("handleStart", mode, "started", 0, FALSE)
          /\ horizon = 0
          /\ given = << mode >>
          /\ taken = <<>>
          /\ picked = draws
          /\ answer = <<>>

\* a key press while the match runs
HandleKey ==
    /\ given = << "manual" >>
    /\ state.status = "running"
    /\ \E direction \in Directions :
         /\ ~isOpposite(state.direction, direction)
         /\ state' = [state EXCEPT !.direction = direction]
         /\ call' = Call("handleKey", direction, "turned", 0, FALSE)
    /\ UNCHANGED <<size, horizon, taken, picked, given, answer>>

\* a tick of the player steered by hand: advancePlayer is stepGame
TickManual ==
    /\ given = << "manual" >>
    /\ state.status = "running"
    /\ \E advanced \in { stepGameRun(state, size, rng) : rng \in RngSeqs(2) } :
         \E run \in { TickRun(state, horizon, advanced) } :
           /\ state' = run.state
           /\ horizon' = run.elapsed
           /\ call' = Call("tick", "manual", run.branch, run.used, FALSE)
    /\ UNCHANGED <<size, taken, picked, given, answer>>

\* a tick of a player steered by pickAggressiveDirection: advancePlayer
\* ends the game when the policy returns none, and otherwise sets the
\* direction and calls stepGame
TickAggressive ==
    /\ given = << "aggressive" >>
    /\ state.status = "running"
    /\ \E nextDirection \in { pickAggressiveDirection(state, size) } :
         \E advanced \in { advanceWith(state, size, nextDirection, picked) } :
          \E run \in { TickRun(state, horizon, advanced) } :
           /\ state' = run.state
           /\ horizon' = run.elapsed
           /\ call' = Call("tick", "aggressive", run.branch, run.used, FALSE)
    /\ UNCHANGED <<size, taken, picked, given, answer>>

\* a tick of a player steered by pickSpaceDirection
TickSpace ==
    /\ given = << "space" >>
    /\ state.status = "running"
    /\ \E nextDirection \in { pickSpaceDirection(state, size) } :
         \E advanced \in { advanceWith(state, size, nextDirection, picked) } :
          \E run \in { TickRun(state, horizon, advanced) } :
           /\ state' = run.state
           /\ horizon' = run.elapsed
           /\ call' = Call("tick", "space", run.branch, run.used, FALSE)
    /\ UNCHANGED <<size, taken, picked, given, answer>>

NextLoop == HandleKey \/ TickManual \/ TickAggressive \/ TickSpace

\* the timer fires for as long as a game runs
SpecLoop ==
    /\ InitLoop
    /\ [][NextLoop]_vars
    /\ WF_vars(TickManual)
    /\ WF_vars(TickAggressive)
    /\ WF_vars(TickSpace)

\* C30: under the driving loop, with the ticks firing, every running game
\* eventually reaches gameover.
C30_RunningGameEnds ==
    (state.status = "running") ~> (state.status = "gameover")

\* a tick has ended a running game by its timeout
C30_Witness ==
    /\ call.op = "tick"
    /\ call.branch = "timeout"
    /\ state.status = "gameover"
    /\ horizon >= getTimeoutMs(state.fruitsEaten)

\* a tick has ended a game because the policy returned none
PolicyEndedGame ==
    /\ call.op = "tick"
    /\ call.branch = "no move"
    /\ state.status = "gameover"

\* a timeout of the short window, and one of the long window
LowTimeoutReached ==
    /\ call.op = "tick"
    /\ call.branch = "timeout"
    /\ horizon = TimeoutLowMs

HighTimeoutReached ==
    /\ call.op = "tick"
    /\ call.branch = "timeout"
    /\ horizon = TimeoutHighMs

\* a tick has filled the board
BoardFilledByTick ==
    /\ call.op = "tick"
    /\ call.branch = "filled"
    /\ state.status = "gameover"

====
